---- MODULE Spec2Model ----
(***************************************************************************)
(* Ingestion and reconciliation pipeline of the storage-capacity dashboard *)
(* (backend/app/utils/processing.py, backend/app/api/v1/data.py,           *)
(* backend/app/api/v1/alerts.py, backend/app/db/models.py).                *)
(*                                                                         *)
(* Text is a sequence of one-character strings, so that strip, replace and *)
(* float parsing are computed character by character.  Every value is a   *)
(* record [k, s, m, e]: k = "null" (None), "str" (the text s), "num" (an   *)
(* integer cell m), "date" (the day m), "float" (the number m * 10^e,      *)
(* normalised), "nan", "inf" (m = 1 or -1) or "id" (a primary key).        *)
(***************************************************************************)
EXTENDS Integers, Sequences, FiniteSets, TLC

VARIABLES
    fn_in,      \* pure-function specifications: the input drawn by Init
    fn_out,     \* pure-function specifications: the results so far
    db,         \* committed rows of every table
    sess,       \* per session: position in upload_excel and its transaction
    nextLogId,  \* upload_logs.id autoincrement
    hist        \* ended runs and deletions, for stating the claims

vars == <<fn_in, fn_out, db, sess, nextLogId, hist>>

----------------------------------------------------------------------------
(* Cells and text *)

V(k, s, m, e) == [k |-> k, s |-> s, m |-> m, e |-> e]
NullCell == V("null", <<>>, 0, 0)
StrCell(chars) == V("str", chars, 0, 0)
NumCell(i) == V("num", <<>>, i, 0)
DateCell(d) == V("date", <<>>, d, 0)
NaN == V("nan", <<>>, 0, 0)
Inf(neg) == V("inf", <<>>, IF neg THEN -1 ELSE 1, 0)

\* pd.isna(value) or value is None
IsNa(cell) == cell.k \in {"null", "nan"}

Digits == <<"0", "1", "2", "3", "4", "5", "6", "7", "8", "9">>
IsDigit(c) == \E i \in 1..10 : Digits[i] = c
DigitVal(c) == (CHOOSE i \in 1..10 : Digits[i] = c) - 1

RECURSIVE NatToStr(_)
NatToStr(i) == IF i < 10 THEN <<Digits[i + 1]>>
               ELSE NatToStr(i \div 10) \o <<Digits[(i % 10) + 1]>>

\* str(value) of a text, an integer or a date
Str(cell) == IF cell.k = "str" THEN cell.s
             ELSE IF cell.k = "date" THEN <<"D">> \o NatToStr(cell.m)
             ELSE IF cell.m < 0 THEN <<"-">> \o NatToStr(-cell.m)
             ELSE NatToStr(cell.m)

IsSpace(c) == c = " "

RECURSIVE LStrip(_)
LStrip(s) == IF s # <<>> /\ IsSpace(Head(s)) THEN LStrip(Tail(s)) ELSE s

RECURSIVE RStrip(_)
RStrip(s) == IF s # <<>> /\ IsSpace(s[Len(s)])
             THEN RStrip(SubSeq(s, 1, Len(s) - 1)) ELSE s

\* str.strip()
Strip(s) == RStrip(LStrip(s))

\* str.replace(a, b) for one-character a and b
Replace(s, a, b) == [i \in 1..Len(s) |-> IF s[i] = a THEN b ELSE s[i]]

\* str.replace(a, '')
Remove(s, a) == SelectSeq(s, LAMBDA c : c # a)

UpperLetters == <<"A", "B", "C", "D", "E", "F", "G", "H", "I", "J", "K", "L", "M", "N", "O", "P", "Q", "R", "S", "T", "U", "V", "W", "X", "Y", "Z">>
LowerLetters == <<"a", "b", "c", "d", "e", "f", "g", "h", "i", "j", "k", "l", "m", "n", "o", "p", "q", "r", "s", "t", "u", "v", "w", "x", "y", "z">>

LowerCase ==
    [c \in {UpperLetters[j] : j \in 1..Len(UpperLetters)} |->
        LowerLetters[CHOOSE j \in 1..Len(UpperLetters) : UpperLetters[j] = c]]

\* str.lower()
Lower(s) ==
    [i \in 1..Len(s) |-> IF s[i] \in DOMAIN LowerCase THEN LowerCase[s[i]] ELSE s[i]]

\* every text over alphabet A of length at most n
TextsUpTo(A, n) == UNION {[1..k -> A] : k \in 0..n}

----------------------------------------------------------------------------
(* Name Normalizer: processing.py normalize_storage_system_name *)

FS9500_IP == <<"F","S","9","5","0","0","_","1","0",".","4","8",".","1",".","7","9">>
Cluster_IP == <<"C","l","u","s","t","e","r","_","9",".","3",".","1","1","8",".","1","9","1">>
FS92K_A1_IP == <<"F","S","9","2","K","_","A","1","_","9",".","3",".","1","1","8",".","1","9","1">>
megasan18 == <<"m","e","g","a","s","a","n","1","8">>
FS95K_R1 == <<"F","S","9","5","K","-","R","1">>
FS92K_A1 == <<"F","S","9","2","K","-","A","1">>
FS92K_A1_us == <<"F","S","9","2","K","_","A","1">>
MSAN18 == <<"M","S","A","N","1","8">>

\* processing.py:279-285
specific_mappings ==
    { <<FS9500_IP, FS95K_R1>>, <<Cluster_IP, FS92K_A1>>,
      <<FS92K_A1_IP, FS92K_A1>>, <<megasan18, MSAN18>> }

\* a faulty variant: only the hardcoded corrections are applied
normalize_mappings_only(name) ==
    IF IsNa(name) THEN name
    ELSE LET str_name == Strip(Str(name))
         IN  IF \E p \in specific_mappings : p[1] = str_name
             THEN StrCell((CHOOSE p \in specific_mappings : p[1] = str_name)[2])
             ELSE StrCell(str_name)

\* a faulty variant: str.replace('_', '-', 1), only the first underscore is rewritten
normalize_first_underscore_only(name) ==
    IF IsNa(name) THEN name
    ELSE LET str_name == Strip(Str(name))
             first == CHOOSE i \in 0..Len(str_name) :
                        /\ i > 0 => str_name[i] = "_"
                        /\ \A j \in 1..(IF i = 0 THEN Len(str_name) ELSE i - 1) :
                              str_name[j] # "_"
         IN  IF \E p \in specific_mappings : p[1] = str_name
             THEN StrCell((CHOOSE p \in specific_mappings : p[1] = str_name)[2])
             ELSE StrCell([i \in 1..Len(str_name) |->
                             IF i = first THEN "-" ELSE str_name[i]])

normalize_storage_system_name(name) ==
    IF IsNa(name) THEN name
    ELSE LET str_name == Strip(Str(name))
         IN  IF \E p \in specific_mappings : p[1] = str_name
             THEN StrCell((CHOOSE p \in specific_mappings : p[1] = str_name)[2])
             ELSE StrCell(Replace(str_name, "_", "-"))

----------------------------------------------------------------------------
(* Value Normalizer: processing.py clean_numeric_value *)

RECURSIVE Float(_, _)
Float(m, e) == IF m = 0 THEN V("float", <<>>, 0, 0)
               ELSE IF m % 10 = 0 THEN Float(m \div 10, e + 1)
               ELSE V("float", <<>>, m, e)

Zero == Float(0, 0)

\* Python's digitpart: digit (["_"] digit)*
DigitPart(s) ==
    /\ s # <<>>
    /\ \A i \in 1..Len(s) : IsDigit(s[i]) \/ s[i] = "_"
    /\ IsDigit(s[1]) /\ IsDigit(s[Len(s)])
    /\ \A i \in 1..(Len(s) - 1) : ~(s[i] = "_" /\ s[i + 1] = "_")

RECURSIVE DigitsVal(_)
DigitsVal(s) == IF s = <<>> THEN 0
                ELSE IF s[Len(s)] = "_" THEN DigitsVal(SubSeq(s, 1, Len(s) - 1))
                ELSE 10 * DigitsVal(SubSeq(s, 1, Len(s) - 1)) + DigitVal(s[Len(s)])

Find(s, chars) == IF \E i \in 1..Len(s) : s[i] \in chars
                  THEN CHOOSE i \in 1..Len(s) :
                         s[i] \in chars /\ \A j \in 1..(i - 1) : s[j] \notin chars
                  ELSE 0

HasSign(s) == s # <<>> /\ s[1] \in {"+", "-"}
Unsigned(s) == IF HasSign(s) THEN Tail(s) ELSE s

\* float(text): [ok, val]; ok = FALSE stands for ValueError
ParseFloat(text) ==
    LET s   == Strip(text)
        neg == HasSign(s) /\ s[1] = "-"
        u   == Unsigned(s)
        low == Lower(u)
        ePos == Find(u, {"e", "E"})
        mant == IF ePos = 0 THEN u ELSE SubSeq(u, 1, ePos - 1)
        expo == IF ePos = 0 THEN <<>> ELSE SubSeq(u, ePos + 1, Len(u))
        dot  == Find(mant, {"."})
        ip   == IF dot = 0 THEN mant ELSE SubSeq(mant, 1, dot - 1)
        fp   == IF dot = 0 THEN <<>> ELSE SubSeq(mant, dot + 1, Len(mant))
        fdig == Remove(fp, "_")
        mantOk == /\ (ip = <<>> \/ DigitPart(ip))
                  /\ (fp = <<>> \/ DigitPart(fp))
                  /\ ~(ip = <<>> /\ fp = <<>>)
        expOk == ePos = 0 \/ DigitPart(Unsigned(expo))
        expVal == IF ePos = 0 THEN 0
                  ELSE IF HasSign(expo) /\ expo[1] = "-"
                       THEN -DigitsVal(Unsigned(expo))
                       ELSE DigitsVal(Unsigned(expo))
        mag == DigitsVal(ip \o fdig)
    IN  IF low = <<"n", "a", "n">> THEN [ok |-> TRUE, val |-> NaN]
        ELSE IF low \in {<<"i", "n", "f">>, <<"i", "n", "f", "i", "n", "i", "t", "y">>}
             THEN [ok |-> TRUE, val |-> Inf(neg)]
        ELSE IF mantOk /\ expOk
             THEN [ok |-> TRUE,
                   val |-> Float(IF neg THEN -mag ELSE mag, expVal - Len(fdig))]
        ELSE [ok |-> FALSE, val |-> Zero]

\* processing.py:168
NullIndicators ==
    { <<>>, <<"-">>, <<"N", "/", "A">>, <<"n", "/", "a">>, <<"#", "N", "/", "A">>,
      <<"n", "u", "l", "l">>, <<"N", "U", "L", "L">> }

clean_numeric_value(value) ==
    IF IsNa(value) THEN Zero
    ELSE LET str_val == Strip(Str(value))
         IN  IF str_val \in NullIndicators THEN Zero
             ELSE LET p == ParseFloat(Remove(str_val, ","))
                  IN  IF p.ok THEN p.val ELSE Zero

----------------------------------------------------------------------------
(* Float arithmetic on m * 10^e *)

RECURSIVE Pow10(_)
Pow10(n) == IF n <= 0 THEN 1 ELSE 10 * Pow10(n - 1)

MinInt(a, b) == IF a < b THEN a ELSE b

\* the two mantissas over the common exponent MinInt(a.e, b.e)
MantA(a, b) == a.m * Pow10(a.e - MinInt(a.e, b.e))
MantB(a, b) == b.m * Pow10(b.e - MinInt(a.e, b.e))

FSub(a, b) ==
    IF a.k = "float" /\ b.k = "float"
    THEN Float(MantA(a, b) - MantB(a, b), MinInt(a.e, b.e))
    ELSE IF a.k = "inf" /\ b.k = "float" THEN a
    ELSE IF a.k = "float" /\ b.k = "inf" THEN Inf(b.m > 0)
    ELSE IF a.k = "inf" /\ b.k = "inf" /\ a.m # b.m THEN a
    ELSE NaN

FAdd(a, b) ==
    IF a.k = "float" /\ b.k = "float"
    THEN Float(MantA(a, b) + MantB(a, b), MinInt(a.e, b.e))
    ELSE IF a.k = "inf" /\ b.k = "float" THEN a
    ELSE IF a.k = "float" /\ b.k = "inf" THEN b
    ELSE IF a.k = "inf" /\ b.k = "inf" /\ a.m = b.m THEN a
    ELSE NaN

\* a >= b and a > b on floats; a comparison with NaN is false
FGe(a, b) ==
    IF a.k = "float" /\ b.k = "float" THEN MantA(a, b) >= MantB(a, b)
    ELSE IF a.k = "inf" /\ b.k = "float" THEN a.m > 0
    ELSE IF a.k = "float" /\ b.k = "inf" THEN b.m < 0
    ELSE a.k = "inf" /\ b.k = "inf" /\ a.m >= b.m

FGt(a, b) == FGe(a, b) /\ ~FGe(b, a)

\* the integer nearest to a / b (b > 0), ties to the even one: round()
RECURSIVE RoundHalfEven(_, _)
RoundHalfEven(a, b) ==
    IF a < 0 THEN -RoundHalfEven(-a, b)
    ELSE LET q == a \div b
             r == a % b
         IN  IF 2 * r > b \/ (2 * r = b /\ q % 2 = 1) THEN q + 1 ELSE q

\* Python's "x or 0": None and 0.0 are falsy
OrZero(v) == IF v.k = "null" \/ v = Zero THEN Zero ELSE v

\* processing.py:55-59
calculate_utilization_pct(used, total) ==
    IF IsNa(used) \/ IsNa(total) \/ total = Zero THEN Zero
    ELSE IF used.k = "float" /\ total.k = "float"
         THEN LET a == MantA(used, total)
                  b == MantB(used, total)
              IN  Float(IF b > 0 THEN RoundHalfEven(a * 10000, b)
                        ELSE RoundHalfEven(-a * 10000, -b), -2)
    ELSE IF used.k = "inf" /\ total.k = "float"
         THEN Inf((used.m > 0) = (total.m > 0))
    ELSE IF used.k = "float" /\ total.k = "inf" THEN Zero
    ELSE NaN

----------------------------------------------------------------------------
(* Record Transformer: processing.py process_dataframe and the derived     *)
(* fields.  A dataframe is [columns, rows]; a row maps each column to a     *)
(* value.  Headers are the cleaned column names.                            *)

Storage_Systems == "Storage_Systems"
Storage_Pools == "Storage_Pools"
Capacity_Volumes == "Capacity_Volumes"
Capacity_Hosts == "Capacity_Hosts"
Capacity_Disks == "Capacity_Disks"
Departments == "Departments"

\* models.py __table__.columns without id: the attributes the model follows
model_columns ==
    [Storage_Systems |->
        [report_date |-> "Date", name |-> "String", upload_id |-> "Integer",
         usable_capacity_gib |-> "Float"],
     Storage_Pools |->
        [report_date |-> "Date", name |-> "String",
         storage_system_id |-> "Integer", storage_system_name |-> "String",
         upload_id |-> "Integer", usable_capacity_gib |-> "Float",
         used_capacity_gib |-> "Float", available_capacity_gib |-> "Float",
         utilization_pct |-> "Float"],
     Capacity_Volumes |->
        [report_date |-> "Date", volume_name |-> "String",
         storage_system_id |-> "Integer", storage_system_name |-> "String",
         pool_name |-> "String", upload_id |-> "Integer",
         provisioned_capacity_gib |-> "Float", used_capacity_gib |-> "Float",
         available_capacity_gib |-> "Float", overhead_used_capacity |-> "Float"],
     Capacity_Hosts |->
        [report_date |-> "Date", name |-> "String", upload_id |-> "Integer",
         condition |-> "String", san_capacity_gib |-> "Float",
         used_san_capacity_gib |-> "Float",
         primary_provisioned_capacity_gib |-> "Float",
         primary_used_capacity_gib |-> "Float"],
     Capacity_Disks |->
        [report_date |-> "Date", name |-> "String",
         storage_system_id |-> "Integer", storage_system_name |-> "String",
         pool |-> "String", upload_id |-> "Integer", capacity_gib |-> "Float",
         available_capacity_gib |-> "Float", used_capacity_gib |-> "Float"],
     Departments |->
        [report_date |-> "Date", name |-> "String", upload_id |-> "Integer"]]

\* dict.get(key): None for a missing key
Get(record, key) == IF key \in DOMAIN record THEN record[key] ELSE NullCell

\* the model's date text: "D" and the day number
ParseDate(text) ==
    IF Len(text) >= 2 /\ text[1] = "D" /\ \A i \in 2..Len(text) : IsDigit(text[i])
    THEN DateCell(DigitsVal(Tail(text)))
    ELSE NullCell

\* processing.py:223-248
clean_datetime_value(value) ==
    IF IsNa(value) THEN NullCell
    ELSE IF Strip(Str(value)) \in NullIndicators THEN NullCell
    ELSE IF value.k = "date" THEN value
    ELSE ParseDate(Strip(Str(value)))

\* processing.py:314
storage_name_columns == {"name", "storage_system_name", "storage_system", "system_name"}

\* processing.py:331-344: the new name of column c of a frame with these columns
RenamedColumn(c, columns, model_class) ==
    IF c = "storage_system" /\ "storage_system_name" \notin columns
    THEN "storage_system_name"
    ELSE IF /\ c = "capacity_gib" /\ model_class = Capacity_Volumes
            /\ "provisioned_capacity_gib" \notin columns
    THEN "provisioned_capacity_gib"
    ELSE c

\* processing.py:360-384: coercion by the declared type, then NaN to None
CoerceValue(type, value) ==
    LET v == IF type \in {"Float", "Integer"} THEN clean_numeric_value(value)
             ELSE IF type = "Date" THEN clean_datetime_value(value)
             ELSE value
    IN  IF v.k = "nan" THEN NullCell ELSE v

process_dataframe(df, model_class, report_date) ==
    LET n == Len(df.rows)
        cols_to_drop == {c \in df.columns : \A i \in 1..n : IsNa(df.rows[i][c])}
        kept == df.columns \ cols_to_drop
        withDate == kept \cup {"report_date"}
        Stage1(i, c) ==
            IF c = "report_date"
            THEN IF c \in kept
                 THEN LET d == clean_datetime_value(df.rows[i][c])
                      IN  IF IsNa(d) THEN DateCell(report_date) ELSE d
                 ELSE DateCell(report_date)
            ELSE IF c \in storage_name_columns
                 THEN normalize_storage_system_name(df.rows[i][c])
                 ELSE df.rows[i][c]
        Source(c) == CHOOSE o \in withDate : RenamedColumn(o, withDate, model_class) = c
        renamed == {RenamedColumn(o, withDate, model_class) : o \in withDate}
        df_columns == renamed \cap DOMAIN model_columns[model_class]
    IN  [columns |-> df_columns,
         rows |-> [i \in 1..n |->
                    [c \in df_columns |->
                        CoerceValue(model_columns[model_class][c],
                                    Stage1(i, Source(c)))]]]

\* a faulty variant: the used capacity of the sheet is kept when the sheet has one
pool_utilization_trusting_source(df) ==
    IF {"usable_capacity_gib", "available_capacity_gib"} \subseteq df.columns
    THEN LET cols == df.columns \cup {"used_capacity_gib", "utilization_pct"}
             Used(r) == IF "used_capacity_gib" \in df.columns
                        THEN r["used_capacity_gib"]
                        ELSE FSub(OrZero(r["usable_capacity_gib"]),
                                  OrZero(r["available_capacity_gib"]))
         IN  [columns |-> cols,
              rows |-> [i \in 1..Len(df.rows) |->
                         [c \in cols |->
                            IF c = "used_capacity_gib" THEN Used(df.rows[i])
                            ELSE IF c = "utilization_pct"
                            THEN calculate_utilization_pct(
                                     Used(df.rows[i]),
                                     df.rows[i]["usable_capacity_gib"])
                            ELSE df.rows[i][c]]]]
    ELSE df

\* processing.py:389-415
calculate_pool_utilization(df) ==
    IF {"usable_capacity_gib", "available_capacity_gib"} \subseteq df.columns
    THEN LET cols == df.columns \cup {"used_capacity_gib", "utilization_pct"}
             Used(r) == FSub(OrZero(r["usable_capacity_gib"]),
                             OrZero(r["available_capacity_gib"]))
         IN  [columns |-> cols,
              rows |-> [i \in 1..Len(df.rows) |->
                         [c \in cols |->
                            IF c = "used_capacity_gib" THEN Used(df.rows[i])
                            ELSE IF c = "utilization_pct"
                            THEN calculate_utilization_pct(
                                     Used(df.rows[i]),
                                     df.rows[i]["usable_capacity_gib"])
                            ELSE df.rows[i][c]]]]
    ELSE df

\* processing.py:418-431
calculate_disk_used_capacity(df) ==
    IF {"capacity_gib", "available_capacity_gib"} \subseteq df.columns
    THEN LET cols == df.columns \cup {"used_capacity_gib"}
         IN  [columns |-> cols,
              rows |-> [i \in 1..Len(df.rows) |->
                         [c \in cols |->
                            IF c = "used_capacity_gib"
                            THEN FSub(OrZero(df.rows[i]["capacity_gib"]),
                                      OrZero(df.rows[i]["available_capacity_gib"]))
                            ELSE df.rows[i][c]]]]
    ELSE df

----------------------------------------------------------------------------
(* Alert Generator: processing.py get_alert_level *)

Hundred == Float(100, 0)
NinetyEight == Float(98, 0)
Ninety == Float(90, 0)

\* a faulty variant: the critical and warning thresholds swapped
alert_level_swapped(utilization_pct) ==
    IF FGe(utilization_pct, Hundred) THEN "emergency"
    ELSE IF FGe(utilization_pct, NinetyEight) THEN "warning"
    ELSE IF FGe(utilization_pct, Ninety) THEN "critical"
    ELSE "none"

\* processing.py:95-103; "none" stands for None
get_alert_level(utilization_pct) ==
    IF FGe(utilization_pct, Hundred) THEN "emergency"
    ELSE IF FGe(utilization_pct, NinetyEight) THEN "critical"
    ELSE IF FGe(utilization_pct, Ninety) THEN "warning"
    ELSE "none"

\* a persisted row: every column of the table, None where the record has none
DbRow(model_class, record) ==
    [c \in DOMAIN model_columns[model_class] |-> Get(record, c)]

\* processing.py:677-719: one candidate for each pool of the report date
\* whose utilization is known and at or above a threshold
generate_alerts_from_pools(pools, report_date) ==
    { [pool_name |-> p.name, storage_system |-> p.storage_system_name,
       utilization_pct |-> p.utilization_pct,
       level |-> get_alert_level(p.utilization_pct), acknowledged |-> FALSE] :
      p \in { q \in pools : /\ q.report_date = DateCell(report_date)
                            /\ q.utilization_pct.k # "null"
                            /\ get_alert_level(q.utilization_pct) # "none" } }

----------------------------------------------------------------------------
(* Duplicate Reconciler, aggregation: processing.py aggregate_host_duplicates *)

\* processing.py:523-528
sum_fields == {"san_capacity_gib", "used_san_capacity_gib",
               "primary_provisioned_capacity_gib", "primary_used_capacity_gib"}

NoneText == <<"N", "o", "n", "e">>

\* str(v) if v is not None else 'None'
KeyStr(v) == IF v.k = "null" THEN NoneText ELSE Str(v)

\* processing.py:534-537
GroupKey(record, unique_keys) == [k \in unique_keys |-> KeyStr(Get(record, k))]

\* the keys of the records in the order of their first occurrence
RECURSIVE KeysInOrder(_, _, _)
KeysInOrder(records, unique_keys, seen) ==
    IF records = <<>> THEN <<>>
    ELSE LET k == GroupKey(Head(records), unique_keys)
         IN  IF k \in seen THEN KeysInOrder(Tail(records), unique_keys, seen)
             ELSE <<k>> \o KeysInOrder(Tail(records), unique_keys, seen \cup {k})

\* processing.py:556-560: sum(float(rec.get(field) or 0) for rec if not None)
RECURSIVE FieldTotal(_, _)
FieldTotal(duplicate_records, field) ==
    IF duplicate_records = <<>> THEN Zero
    ELSE LET v == Get(Head(duplicate_records), field)
             rest == FieldTotal(Tail(duplicate_records), field)
         IN  IF v.k = "null" THEN rest ELSE FAdd(OrZero(v), rest)

\* a faulty variant: a zero total is kept as 0.0 and only a negative one dropped
KeepTotal_zero_kept(total) == IF FGe(total, Zero) THEN total ELSE NullCell

\* processing.py:561: total if total > 0 else None
KeepTotal(total) == IF FGt(total, Zero) THEN total ELSE NullCell

\* processing.py:550-563
MergedRecord(duplicate_records) ==
    LET base_record == Head(duplicate_records)
    IN  [c \in DOMAIN base_record |->
            IF c \in sum_fields THEN KeepTotal(FieldTotal(duplicate_records, c))
            ELSE base_record[c]]

Reason(kind, arg) == [kind |-> kind, arg |-> arg]

UnknownText == StrCell(<<"U", "n", "k", "n", "o", "w", "n">>)

\* dict.get(key, 'Unknown'): the default only for a missing key
GetOrUnknown(record, key) == IF key \in DOMAIN record THEN record[key] ELSE UnknownText

\* processing.py:506-574: [records, info]
aggregate_host_duplicates(records, unique_keys) ==
    LET keys == KeysInOrder(records, unique_keys, {})
        Group(k) == SelectSeq(records, LAMBDA r : GroupKey(r, unique_keys) = k)
        Out(k) == IF Len(Group(k)) = 1 THEN Head(Group(k)) ELSE MergedRecord(Group(k))
        merged == SelectSeq(keys, LAMBDA k : Len(Group(k)) > 1)
    IN  [records |-> [i \in 1..Len(keys) |-> Out(keys[i])],
         info |-> [i \in 1..Len(merged) |->
                    [table |-> "capacity_hosts",
                     reason |-> Reason("aggregated_n_duplicates",
                                       NumCell(Len(Group(merged[i])))),
                     identifier |-> GetOrUnknown(Head(Group(merged[i])), "name"),
                     full_row |-> MergedRecord(Group(merged[i])),
                     original_count |-> Len(Group(merged[i]))]]]

----------------------------------------------------------------------------
(* Specifications of the pure functions: Init draws the input, the action   *)
(* applies the function; no ingestion run takes place.                      *)

NoRun == db = <<>> /\ sess = <<>> /\ nextLogId = 0 /\ hist = <<>>
NoRunStep == UNCHANGED <<fn_in, db, sess, nextLogId, hist>>

MaxNameLen == 4
MaxNumLen == 3
MaxPoolRows == 2
MaxHostRows == 3

(* Name Normalizer *)

NameAlphabet == {"A", "1", "_", "-", " "}

KnownNames ==
    { FS9500_IP, Cluster_IP, FS92K_A1_IP, megasan18, FS95K_R1, FS92K_A1,
      FS92K_A1_us, MSAN18, Replace(FS9500_IP, "_", "-"),
      Replace(Cluster_IP, "_", "-"), Replace(FS92K_A1_IP, "_", "-") }

NameInputs ==
    {NullCell, NumCell(7), NumCell(12)}
    \cup {StrCell(s) : s \in TextsUpTo(NameAlphabet, MaxNameLen)}
    \cup {StrCell(s) : s \in KnownNames}
    \cup {StrCell(<<" ">> \o s \o <<" ">>) : s \in KnownNames}

NameInit == fn_in \in NameInputs /\ fn_out = <<>> /\ NoRun

\* normalize applied to the input, then to its own result
NormalizeName ==
    /\ Len(fn_out) < 2
    /\ fn_out' = Append(fn_out, normalize_storage_system_name(
                            IF fn_out = <<>> THEN fn_in ELSE fn_out[Len(fn_out)]))
    /\ NoRunStep

SpecName == NameInit /\ [][NormalizeName]_vars

\* C9: name normalization is idempotent, normalize(normalize(x)) =
\* normalize(x) for every input x, alias keys and targets included, and
\* "FS92K_A1" and "FS92K-A1" normalize to the same name.
C9_NormalizeIdempotent ==
    /\ Len(fn_out) = 2 => fn_out[2] = fn_out[1]
    /\ (fn_out # <<>> /\ fn_in \in {StrCell(FS92K_A1_us), StrCell(FS92K_A1)})
          => fn_out[1] = StrCell(FS92K_A1)

C9_Witness ==
    /\ fn_in = StrCell(FS92K_A1_us)
    /\ fn_out = <<StrCell(FS92K_A1), StrCell(FS92K_A1)>>

(* Numeric cleaning *)

NumAlphabet == {"1", "0", ".", ",", "-", " ", "n", "a", "N", "A", "/"}

NumExamples ==
    { <<"#", "N", "/", "A">>, <<"n", "u", "l", "l">>, <<"N", "U", "L", "L">>,
      <<"1", ",", "2", "3", "4", ".", "5">>, <<"4", "6", ",", "5", "7", "6", ".", "0", "0">>,
      <<"a", "b", "c">>, <<"1", "2", " ", "G", "i", "B">>, <<"i", "n", "f">>,
      <<"1", "_", "0">>, <<"1", "e", "2">>, <<"+", "1", ".", "5">>, <<" ", "N", "/", "A", " ">> }

NumericInputs ==
    {NullCell, NumCell(0), NumCell(42), NumCell(-3)}
    \cup {StrCell(s) : s \in TextsUpTo(NumAlphabet, MaxNumLen)}
    \cup {StrCell(s) : s \in NumExamples}

NumericInit == fn_in \in NumericInputs /\ fn_out = <<>> /\ NoRun

CleanNumeric ==
    /\ fn_out = <<>>
    /\ fn_out' = <<clean_numeric_value(fn_in)>>
    /\ NoRunStep

SpecNumeric == NumericInit /\ [][CleanNumeric]_vars

\* the null and null-indicator inputs the claim lists
ListedNullInputs ==
    { NullCell, StrCell(<<>>), StrCell(<<"-">>), StrCell(<<"N", "/", "A">>),
      StrCell(<<"#", "N", "/", "A">>) }

\* C8: numeric cleaning never yields a null; a null cell, "", "-", "N/A",
\* "#N/A" and text that is no number give 0.0; "1,234.5" gives 1234.5.
C8_NumericNeverNull ==
    fn_out # <<>> =>
        /\ ~IsNa(fn_out[1])
        /\ fn_in \in ListedNullInputs => fn_out[1] = Zero
        /\ fn_in = StrCell(<<"a", "b", "c">>) => fn_out[1] = Zero
        /\ fn_in = StrCell(<<"1", ",", "2", "3", "4", ".", "5">>)
              => fn_out[1] = V("float", <<>>, 12345, -1)

\* C8 witness: a thousands-separated number is cleaned to its value
C8_Witness ==
    /\ fn_in = StrCell(<<"1", ",", "2", "3", "4", ".", "5">>)
    /\ fn_out = <<V("float", <<>>, 12345, -1)>>

(* Pool sheets through the Record Transformer and the Alert Generator *)

PoolName(i) == StrCell(<<"P", Digits[i + 1]>>)

\* the cells of the first row of a raw Storage_Pools sheet
PoolUsableCells == {NullCell, NumCell(0), NumCell(3), NumCell(100), NumCell(1000)}
PoolAvailableCells ==
    {NullCell, NumCell(0), NumCell(1), NumCell(2), NumCell(10), NumCell(30), NumCell(50)}
PoolUsedCells == {NullCell, NumCell(5)}

RawPoolRow(i, usable, available, used) ==
    [name |-> PoolName(i), storage_system |-> StrCell(FS92K_A1_us),
     usable_capacity_gib |-> usable, available_capacity_gib |-> available,
     used_capacity_gib |-> used]

\* the rows after the first: a value or a blank in the two capacity columns
PoolFillRows(i) ==
    {RawPoolRow(i, u, a, NullCell) : u \in {NullCell, NumCell(100)},
                                     a \in {NullCell, NumCell(2)}}

PoolSheets ==
    UNION { { [columns |-> {"name", "storage_system", "usable_capacity_gib",
                            "available_capacity_gib", "used_capacity_gib"},
               rows |-> [i \in 1..n |-> IF i = 1 THEN first ELSE fill[i]]] :
              first \in {RawPoolRow(1, u, a, s) : u \in PoolUsableCells,
                                                 a \in PoolAvailableCells,
                                                 s \in PoolUsedCells},
              fill \in {f \in [2..n -> UNION {PoolFillRows(i) : i \in 2..n}] :
                           \A i \in 2..n : f[i] \in PoolFillRows(i)} } :
            n \in 1..MaxPoolRows }

PoolInit == fn_in \in PoolSheets /\ fn_out = <<>> /\ NoRun

\* data.py:172-189: the transformer and the pools' derived fields
TransformPools ==
    /\ fn_out = <<>>
    /\ fn_out' = <<calculate_pool_utilization(
                       process_dataframe(fn_in, Storage_Pools, 1)).rows>>
    /\ NoRunStep

\* the Alert Generator over the pools these records make
GeneratePoolAlerts ==
    /\ Len(fn_out) = 1
    /\ fn_out' = Append(fn_out,
                     generate_alerts_from_pools(
                         {DbRow(Storage_Pools, fn_out[1][i]) : i \in 1..Len(fn_out[1])}, 1))
    /\ NoRunStep

PoolNext == TransformPools \/ GeneratePoolAlerts

SpecPool == PoolInit /\ [][PoolNext]_vars

\* a raw capacity cell as the integer it is cleaned to
RawGiB(cell) == IF cell.k = "num" THEN cell.m ELSE 0
ColumnHasValue(df, c) == \E i \in 1..Len(df.rows) : ~IsNa(df.rows[i][c])
IsGiB(v, n) == v.k = "float" /\ v.e >= 0 /\ v.m * Pow10(v.e) = n
Abs(n) == IF n < 0 THEN -n ELSE n
\* v is used / usable * 100 rounded to two decimals (0.0 for usable 0)
IsUtilization(v, used, usable) ==
    /\ v.k = "float" /\ v.e >= -2
    /\ IF usable = 0 THEN v.m = 0
       ELSE 2 * Abs(v.m * Pow10(v.e + 2) * usable - used * 10000) <= Abs(usable)

DerivedFromCapacities(raw, rec) ==
    LET U == RawGiB(raw["usable_capacity_gib"])
        A == RawGiB(raw["available_capacity_gib"])
    IN  /\ IsGiB(Get(rec, "used_capacity_gib"), U - A)
        /\ IsUtilization(Get(rec, "utilization_pct"), U - A, U)

AlertsOf(rec) == {a \in fn_out[2] : a.pool_name = rec["name"]}

\* the severity the thresholds give to a utilization of h hundredths
SeverityOfHundredths(h) ==
    IF h >= 10000 THEN "emergency"
    ELSE IF h >= 9800 THEN "critical"
    ELSE IF h >= 9000 THEN "warning"
    ELSE "none"

\* C10: the severity of a pool is a function of its utilization alone:
\* >= 100 emergency, >= 98 critical, >= 90 warning, below 90 or unknown no
\* candidate; a pool with usable 1000 and available 50 gets exactly one
\* warning alert.
C10_SeverityByUtilization ==
    Len(fn_out) = 2 =>
        \A i \in 1..Len(fn_out[1]) :
            LET rec == fn_out[1][i]
                u == Get(rec, "utilization_pct")
                level == IF u.k = "float" /\ u.e >= -2
                         THEN SeverityOfHundredths(u.m * Pow10(u.e + 2))
                         ELSE "none"
            IN  /\ u.k \in {"float", "null"}
                /\ u.k = "float" => u.e >= -2
                /\ level = "none" => AlertsOf(rec) = {}
                /\ level # "none" =>
                      /\ Cardinality(AlertsOf(rec)) = 1
                      /\ \A a \in AlertsOf(rec) :
                            a.level = level /\ a.utilization_pct = u
                /\ ( /\ fn_in.rows[i]["usable_capacity_gib"] = NumCell(1000)
                     /\ fn_in.rows[i]["available_capacity_gib"] = NumCell(50) )
                      => /\ Cardinality(AlertsOf(rec)) = 1
                         /\ \A a \in AlertsOf(rec) : a.level = "warning"

C10_Witness ==
    /\ Len(fn_out) = 2
    /\ fn_in.rows[1]["usable_capacity_gib"] = NumCell(1000)
    /\ fn_in.rows[1]["available_capacity_gib"] = NumCell(50)
    /\ IsGiB(fn_out[1][1]["utilization_pct"], 95)
    /\ \E a \in fn_out[2] : a.pool_name = PoolName(1) /\ a.level = "warning"

(* Capacity_Hosts candidates through the aggregation *)

HostH1 == StrCell(<<"H", "1">>)
HostH2 == StrCell(<<"H", "2">>)

HostCandidate(d, name, condition, san, used, prov, pused) ==
    [report_date |-> DateCell(d), name |-> name, upload_id |-> NumCell(1),
     condition |-> StrCell(condition), san_capacity_gib |-> san,
     used_san_capacity_gib |-> used,
     primary_provisioned_capacity_gib |-> prov,
     primary_used_capacity_gib |-> pused]

\* capacities: the example's 100 and 50, a zero, a blank and a negative
HostCandidates ==
    {HostCandidate(1, n, <<"o", "k">>, Float(100, 0), Float(7, 0), Zero, Float(-3, 0)) :
        n \in {HostH1, HostH2}}
    \cup {HostCandidate(1, n, <<"b", "a", "d">>, Float(50, 0), Zero, Zero, Float(2, 0)) :
        n \in {HostH1, HostH2}}
    \cup {HostCandidate(1, n, <<"n", "e", "w">>, NullCell, Float(-7, 0), NullCell, Float(1, 0)) :
        n \in {HostH1, HostH2}}
    \cup {HostCandidate(2, HostH1, <<"o", "k">>, Float(25, -1), Zero, NullCell, NullCell),
          HostCandidate(1, NullCell, <<"o", "k">>, Float(1, 0), Zero, Zero, Zero),
          HostCandidate(1, StrCell(NoneText), <<"b", "a", "d">>, Float(2, 0), Zero, Zero, Zero)}

HostsInit ==
    /\ fn_in \in UNION {[1..n -> HostCandidates] : n \in 0..MaxHostRows}
    /\ fn_out = <<>>
    /\ NoRun

\* processing.py:602-614 with the hosts' unique keys of data.py:133
AggregateHosts ==
    /\ fn_out = <<>>
    /\ fn_out' = <<aggregate_host_duplicates(fn_in, {"report_date", "name"})>>
    /\ NoRunStep

SpecHosts == HostsInit /\ [][AggregateHosts]_vars

\* the key of a candidate as the aggregation reads it: date and name as text
HostKey(r) == <<r.report_date, IF r.name = NullCell THEN NoneText ELSE r.name.s>>
HostGroup(k) == SelectSeq(fn_in, LAMBDA r : HostKey(r) = k)

\* the capacity of a member in tenths of a GiB, a blank counting as 0
Tenths(v) == IF v.k = "float" THEN v.m * Pow10(v.e + 1) ELSE 0
RECURSIVE SumTenths(_, _)
SumTenths(group, field) ==
    IF group = <<>> THEN 0
    ELSE Tenths(Head(group)[field]) + SumTenths(Tail(group), field)

\* the record is what the group g collapses to: sums kept when they are
\* above the floor, the first member's attributes otherwise
CollapsedFrom(rec, g, floor) ==
    /\ \A f \in sum_fields :
          IF SumTenths(g, f) > floor
          THEN rec[f].k = "float" /\ Tenths(rec[f]) = SumTenths(g, f)
          ELSE rec[f] = NullCell
    /\ \A c \in DOMAIN g[1] \ sum_fields : rec[c] = g[1][c]

HostsCollapse(floor) ==
    fn_out # <<>> =>
        LET out == fn_out[1].records
            info == fn_out[1].info
            keys == {HostKey(fn_in[i]) : i \in 1..Len(fn_in)}
        IN  /\ Len(out) = Cardinality(keys)
            /\ \A k \in keys :
                  LET g == HostGroup(k)
                      hits == {i \in 1..Len(out) : HostKey(out[i]) = k}
                      notes == {j \in 1..Len(info) : info[j].full_row \in {out[i] : i \in hits}}
                  IN  /\ Cardinality(hits) = 1
                      /\ \A i \in hits :
                            IF Len(g) = 1
                            THEN out[i] = g[1] /\ notes = {}
                            ELSE /\ CollapsedFrom(out[i], g, floor)
                                 /\ Cardinality(notes) = 1
                                 /\ \A j \in notes :
                                       /\ info[j].reason =
                                            Reason("aggregated_n_duplicates", NumCell(Len(g)))
                                       /\ info[j].original_count = Len(g)
            /\ Len(info) = Cardinality({k \in keys : Len(HostGroup(k)) > 1})

\* C5 (as stated): rows sharing (report_date, name) collapse into one
\* record whose four capacity fields are the group's sums, absent when the
\* sum is zero, every other attribute the first member's, with one audit
\* entry aggregated_<n>_duplicates; a single row passes through unchanged.
C5_SumAbsentOnlyWhenZero ==
    fn_out # <<>> =>
        LET out == fn_out[1].records
        IN  \A i \in 1..Len(out) :
                LET g == HostGroup(HostKey(out[i]))
                IN  Len(g) > 1 =>
                      \A f \in sum_fields :
                          IF SumTenths(g, f) = 0 THEN out[i][f] = NullCell
                          ELSE out[i][f].k = "float" /\ Tenths(out[i][f]) = SumTenths(g, f)

\* C5 (amended): rows whose report_date and name agree as text (an absent
\* name reading as "None") collapse into one record; each of the four
\* capacity fields is the sum over the group, blanks counting as 0, and is
\* absent when that sum is zero or negative; every other attribute is the
\* first member's; one audit entry aggregated_<n>_duplicates with n the
\* group size is recorded; a single row passes through unchanged with no
\* audit entry.
C5_HostsCollapse == HostsCollapse(0)

\* C5 witness: two rows of host H1 with 100 and 50 GiB collapse into one
\* record of 150 GiB with one audit entry
C5_Witness ==
    /\ fn_out # <<>>
    /\ Len(fn_in) = 2
    /\ fn_in[1].name = HostH1 /\ fn_in[2].name = HostH1
    /\ fn_in[1].san_capacity_gib = Float(100, 0)
    /\ fn_in[2].san_capacity_gib = Float(50, 0)
    /\ Len(fn_out[1].records) = 1
    /\ fn_out[1].records[1].san_capacity_gib = Float(150, 0)
    /\ Len(fn_out[1].info) = 1

----------------------------------------------------------------------------
(* Volumes' derived fields *)

\* processing.py:444
FLASHSYSTEM_NAMES == {<<"A", "9", "K", "-", "A", "1">>, <<"A", "9", "K", "R", "-", "R", "1">>, <<"A", "9", "K", "R", "-", "R", "2">>}

IsFlashSystem(r) ==
    LET n == r["storage_system_name"] IN n.k = "str" /\ n.s \in FLASHSYSTEM_NAMES

\* processing.py:446-450: the early returns
FlashSystemApplies(df) ==
    {"storage_system_name", "provisioned_capacity_gib", "used_capacity_gib"}
        \subseteq df.columns

\* processing.py:457: df['available_capacity_gib'] of a frame without that
\* column raises KeyError
FlashSystemRaises(df) ==
    FlashSystemApplies(df) /\ "available_capacity_gib" \notin df.columns

\* processing.py:434-462, for a frame on which it does not raise
calculate_flashsystem_available_capacity(df) ==
    IF FlashSystemApplies(df)
    THEN [columns |-> df.columns,
          rows |-> [i \in 1..Len(df.rows) |->
                     [c \in df.columns |->
                        IF /\ c = "available_capacity_gib"
                           /\ IsFlashSystem(df.rows[i])
                           /\ IsNa(df.rows[i][c])
                        THEN FSub(OrZero(df.rows[i]["provisioned_capacity_gib"]),
                                  OrZero(df.rows[i]["used_capacity_gib"]))
                        ELSE df.rows[i][c]]]]
    ELSE df

\* imported at data.py:184 and defined in no file of the repository: after
\* the specification, overhead_used_capacity = provisioned - used - available
\* for the volumes of every system outside the FlashSystem set
calculate_overhead_used_capacity(df) ==
    IF {"storage_system_name", "provisioned_capacity_gib", "used_capacity_gib",
        "available_capacity_gib"} \subseteq df.columns
    THEN LET cols == df.columns \cup {"overhead_used_capacity"}
         IN  [columns |-> cols,
              rows |-> [i \in 1..Len(df.rows) |->
                         [c \in cols |->
                            IF c = "overhead_used_capacity"
                            THEN IF IsFlashSystem(df.rows[i]) THEN NullCell
                                 ELSE FSub(FSub(OrZero(df.rows[i]["provisioned_capacity_gib"]),
                                                OrZero(df.rows[i]["used_capacity_gib"])),
                                           OrZero(df.rows[i]["available_capacity_gib"]))
                            ELSE df.rows[i][c]]]]
    ELSE df

----------------------------------------------------------------------------
(* The database: models.py *)

\* data.py:158-160, the sheets of SHEET_MODEL_MAP in processing order
SheetOrder == <<Storage_Systems, Storage_Pools, Capacity_Volumes,
                Capacity_Hosts, Capacity_Disks, Departments>>
Tables == {SheetOrder[i] : i \in 1..Len(SheetOrder)}

\* processing.py:31
REQUIRED_SHEETS == SheetOrder

\* data.py:128-137
unique_keys_map ==
    [Storage_Systems |-> {"report_date", "name"},
     Storage_Pools |-> {"report_date", "name", "storage_system_name"},
     Capacity_Volumes |-> {"report_date", "volume_name", "storage_system_name", "pool_name"},
     Capacity_Hosts |-> {"report_date", "name"},
     Capacity_Disks |-> {"report_date", "name", "storage_system_name", "pool"},
     Departments |-> {"report_date", "name"}]

\* models.py: the UniqueConstraint of each table
unique_constraint == unique_keys_map

\* models.py: the nullable=False columns
not_null ==
    [Storage_Systems |-> {"report_date", "name"},
     Storage_Pools |-> {"report_date", "name", "storage_system_id", "storage_system_name"},
     Capacity_Volumes |-> {"report_date", "volume_name", "storage_system_id",
                           "storage_system_name"},
     Capacity_Hosts |-> {"report_date", "name"},
     Capacity_Disks |-> {"report_date", "storage_system_id", "storage_system_name"},
     Departments |-> {"report_date", "name"}]

\* data.py:196
fk_sheets == {Storage_Pools, Capacity_Volumes, Capacity_Disks}

\* __tablename__ of each model
tablename ==
    [Storage_Systems |-> "storage_systems", Storage_Pools |-> "storage_pools",
     Capacity_Volumes |-> "capacity_volumes", Capacity_Hosts |-> "capacity_hosts",
     Capacity_Disks |-> "capacity_disks", Departments |-> "departments"]

NoRows == [t \in Tables |-> {}]
EmptyDb == [rows |-> NoRows, alerts |-> {}, logs |-> {}]

\* the primary key of a persisted StorageSystem row
SystemId(row) == V("id", Str(row["name"]), row["upload_id"].m, row["report_date"].m)

\* two values are equal in SQL: NULL equals nothing
SqlEq(a, b) == a.k # "null" /\ b.k # "null" /\ a = b

\* the constraint checks of a flush: rows is what the transaction sees,
\* new what the flush writes
ViolatesConstraints(t, rows, new) ==
    \E r \in new :
        \/ \E c \in not_null[t] : r[c].k = "null"
        \/ \E o \in (rows \cup new) \ {r} :
              \A c \in unique_constraint[t] : SqlEq(o[c], r[c])

----------------------------------------------------------------------------
(* One sheet of a run: data.py:165-281 *)

\* data.py:174-186: the derived fields of the sheet
DeriveFields(df, sheet_name) ==
    IF sheet_name = Storage_Pools THEN calculate_pool_utilization(df)
    ELSE IF sheet_name = Capacity_Disks THEN calculate_disk_used_capacity(df)
    ELSE IF sheet_name = Capacity_Volumes
         THEN calculate_overhead_used_capacity(
                  calculate_flashsystem_available_capacity(df))
    ELSE df

\* data.py:172-186
TransformSheet(df, sheet_name, report_date) ==
    DeriveFields(process_dataframe(df, sheet_name, report_date), sheet_name)

\* data.py:185: the volumes' derivation raises
TransformRaises(df, sheet_name, report_date) ==
    /\ sheet_name = Capacity_Volumes
    /\ FlashSystemRaises(process_dataframe(df, sheet_name, report_date))

\* record[key] = value
Put(record, key, value) ==
    [c \in DOMAIN record \cup {key} |-> IF c = key THEN value ELSE record[c]]

\* data.py:191-193
TagRecords(rows, upload_log_id) ==
    [i \in 1..Len(rows) |-> Put(rows[i], "upload_id", NumCell(upload_log_id))]

\* data.py:172-193: the records of the sheet, each tagged with the run
SheetRecords(df, sheet_name, report_date, upload_log_id) ==
    TagRecords(TransformSheet(df, sheet_name, report_date).rows, upload_log_id)

\* Python truth of a cell: None and "" are falsy
Truthy(v) == ~IsNa(v) /\ ~(v.k = "str" /\ v.s = <<>>) /\ v # Zero

\* data.py:195-226: systems are the StorageSystem rows the session sees
ResolveForeignKeys(records, systems, report_date) ==
    LET Matches(name) == {s \in systems : /\ s["report_date"] = DateCell(report_date)
                                          /\ s["name"] = name}
    IN  [i \in 1..Len(records) |->
            LET system_name == Get(records[i], "storage_system_name")
            IN  IF ~Truthy(system_name) THEN records[i]
                ELSE IF Matches(system_name) # {}
                THEN Put(records[i], "storage_system_id",
                         SystemId(CHOOSE s \in Matches(system_name) : TRUE))
                ELSE Put(records[i], "storage_system_id", NullCell)]

SlashText(a, b) == StrCell(Str(a) \o <<"/">> \o Str(b))

\* data.py:238-241
FilteredIdentifier(record) ==
    LET first == IF Truthy(Get(record, "volume_name")) THEN record["volume_name"]
                 ELSE Get(record, "name")
        pool == IF Truthy(Get(record, "pool_name")) THEN record["pool_name"]
                ELSE GetOrUnknown(record, "pool")
        system == GetOrUnknown(record, "storage_system_name")
    IN  IF Truthy(first) THEN first
        ELSE SlashText(IF system.k = "null" THEN StrCell(NoneText) ELSE system,
                       IF pool.k = "null" THEN StrCell(NoneText) ELSE pool)

Without(record, key) == [c \in DOMAIN record \ {key} |-> record[c]]

\* a filter that lets every record through
HasSystem_any(record) == TRUE

\* data.py:228: the record has a storage_system_id that is not None
HasSystem(record) == Get(record, "storage_system_id").k # "null"

\* data.py:228-256
valid_records(records) == SelectSeq(records, HasSystem)

FilteredEntry(record, sheet_name) ==
    [table |-> sheet_name,
     reason |-> Reason("missing_storage_system",
                       GetOrUnknown(record, "storage_system_name")),
     identifier |-> FilteredIdentifier(record),
     full_row |-> Without(record, "storage_system_id")]

filtered_records(records, sheet_name) ==
    LET out == SelectSeq(records, LAMBDA r : ~HasSystem(r))
    IN  [i \in 1..Len(out) |-> FilteredEntry(out[i], sheet_name)]

----------------------------------------------------------------------------
(* Duplicate Reconciler: processing.py insert_data_with_duplicate_check *)

\* processing.py:619
Filters(record, unique_keys) == unique_keys \cap DOMAIN record

\* processing.py:623-626
KeyTuple(record, unique_keys) ==
    [k \in Filters(record, unique_keys) |-> KeyStr(record[k])]

\* processing.py:629-632
RecordIdentifier(record) ==
    LET name == Get(record, "name")
    IN  IF Truthy(name) /\ name # StrCell(NoneText) THEN name
        ELSE SlashText(GetOrUnknown(record, "storage_system_name"),
                       GetOrUnknown(record, "pool"))

\* a duplicate check that finds nothing
Existing_never(rows, record, unique_keys) == FALSE

\* processing.py:646: filter_by(**filters) finds a row; None matches NULL
Existing(rows, record, unique_keys) ==
    \E o \in rows : \A k \in Filters(record, unique_keys) : o[k] = record[k]

SkipEntry(model_class, kind, record) ==
    [table |-> tablename[model_class], reason |-> Reason(kind, NullCell),
     identifier |-> RecordIdentifier(record), full_row |-> record]

\* processing.py:616-672: the loop, rows being what the session's queries see
RECURSIVE ReconcileLoop(_, _, _, _, _)
ReconcileLoop(rows, model_class, records, unique_keys, acc) ==
    IF records = <<>> THEN acc
    ELSE LET record == Head(records)
             key_tuple == KeyTuple(record, unique_keys)
             Skip(kind) == [acc EXCEPT !.duplicates_skipped = @ + 1,
                                       !.skipped_records =
                                           Append(@, SkipEntry(model_class, kind, record))]
             next ==
                 IF key_tuple \in acc.session_keys_seen
                 THEN Skip("within_file_duplicate")
                 ELSE IF Existing(rows, record, unique_keys)
                 THEN Skip("already_exists_in_db")
                 ELSE IF DOMAIN record \subseteq DOMAIN model_columns[model_class]
                 THEN [acc EXCEPT !.rows_added = @ + 1,
                                  !.added = Append(@, DbRow(model_class, record)),
                                  !.session_keys_seen = @ \cup {key_tuple}]
                 ELSE Skip("insert_error")
         IN  ReconcileLoop(rows, model_class, Tail(records), unique_keys, next)

\* processing.py:616-674 after the aggregation agg
ReconcileAggregated(rows, model_class, agg, unique_keys) ==
    ReconcileLoop(rows, model_class, agg.records, unique_keys,
                  [rows_added |-> 0, duplicates_skipped |-> 0,
                   skipped_records |-> agg.info, added |-> <<>>,
                   session_keys_seen |-> {}])

\* processing.py:577-674
insert_data_with_duplicate_check(rows, model_class, records, unique_keys) ==
    ReconcileAggregated(rows, model_class,
        IF tablename[model_class] = "capacity_hosts"
        THEN aggregate_host_duplicates(records, unique_keys)
        ELSE [records |-> records, info |-> <<>>],
        unique_keys)

----------------------------------------------------------------------------
(* Sheet Validator: processing.py validate_excel_file.  A file is            *)
(* [name, readable, sheets]; a sheet is [sheet, readable, df], its headers   *)
(* already in the form clean_column_name gives them.                         *)

SheetText ==
    [Storage_Systems |-> <<"S", "t", "o", "r", "a", "g", "e", "_", "S", "y", "s", "t", "e", "m", "s">>, Storage_Pools |-> <<"S", "t", "o", "r", "a", "g", "e", "_", "P", "o", "o", "l", "s">>,
     Capacity_Volumes |-> <<"C", "a", "p", "a", "c", "i", "t", "y", "_", "V", "o", "l", "u", "m", "e", "s">>, Capacity_Hosts |-> <<"C", "a", "p", "a", "c", "i", "t", "y", "_", "H", "o", "s", "t", "s">>,
     Capacity_Disks |-> <<"C", "a", "p", "a", "c", "i", "t", "y", "_", "D", "i", "s", "k", "s">>, Departments |-> <<"D", "e", "p", "a", "r", "t", "m", "e", "n", "t", "s">>]

ValidationError(kind, sheet) == [kind |-> kind, sheet |-> sheet]

\* a faulty variant: the required sheets are looked up by their exact names
validate_excel_file_exact_names(file) ==
    IF ~file.readable
    THEN [is_valid |-> FALSE,
          errors |-> <<ValidationError("Error reading Excel file", "")>>,
          dataframes |-> <<>>]
    ELSE LET Found(required) ==
                 {i \in 1..Len(file.sheets) : file.sheets[i].sheet = SheetText[required]}
             Actual(required) ==
                 file.sheets[CHOOSE i \in Found(required) : \A j \in Found(required) : j <= i]
             Missing(required) == Found(required) = {}
             bad == SelectSeq(REQUIRED_SHEETS,
                              LAMBDA r : Missing(r) \/ ~Actual(r).readable)
             read == {r \in Tables : ~Missing(r) /\ Actual(r).readable}
         IN  [is_valid |-> bad = <<>>,
              errors |-> [i \in 1..Len(bad) |->
                            IF Missing(bad[i])
                            THEN ValidationError("Missing required sheet", bad[i])
                            ELSE ValidationError("Error reading sheet", bad[i])],
              dataframes |-> [r \in read |-> Actual(r).df]]

\* processing.py:119-152
validate_excel_file(file) ==
    IF ~file.readable
    THEN [is_valid |-> FALSE,
          errors |-> <<ValidationError("Error reading Excel file", "")>>,
          dataframes |-> <<>>]
    ELSE LET Found(required) ==
                 {i \in 1..Len(file.sheets) :
                     Lower(file.sheets[i].sheet) = Lower(SheetText[required])}
             Actual(required) ==
                 file.sheets[CHOOSE i \in Found(required) : \A j \in Found(required) : j <= i]
             Missing(required) == Found(required) = {}
             bad == SelectSeq(REQUIRED_SHEETS,
                              LAMBDA r : Missing(r) \/ ~Actual(r).readable)
             read == {r \in Tables : ~Missing(r) /\ Actual(r).readable}
         IN  [is_valid |-> bad = <<>>,
              errors |-> [i \in 1..Len(bad) |->
                            IF Missing(bad[i])
                            THEN ValidationError("Missing required sheet", bad[i])
                            ELSE ValidationError("Error reading sheet", bad[i])],
              dataframes |-> [r \in read |-> Actual(r).df]]

\* data.py:76-91: the date of the first sheet with data that carries one
RECURSIVE FirstSheetDate(_, _)
FirstSheetDate(dataframes, sheets) ==
    IF sheets = <<>> THEN NullCell
    ELSE LET name == Head(sheets)
             df == dataframes[name]
             dated == {i \in 1..Len(df.rows) : ~IsNa(df.rows[i]["report_date"])}
             first_date == df.rows[CHOOSE i \in dated : \A j \in dated : i <= j]["report_date"]
         IN  IF /\ name \in DOMAIN dataframes
                /\ Len(df.rows) > 0
                /\ "report_date" \in df.columns
                /\ dated # {}
                /\ Truthy(first_date)
             THEN clean_datetime_value(first_date)
             ELSE FirstSheetDate(dataframes, Tail(sheets))

\* data.py:72-95
ResolveReportDate(supplied, dataframes, today) ==
    IF supplied.k = "date" THEN supplied.m
    ELSE LET found == FirstSheetDate(dataframes, SheetOrder)
         IN  IF found.k = "date" THEN found.m ELSE today

----------------------------------------------------------------------------
(* The uploaded files *)

Df(columns, rows) == [columns |-> columns, rows |-> rows]
Sheet(name, df) == [sheet |-> name, readable |-> TRUE, df |-> df]
Txt(chars) == StrCell(chars)

SysA == Txt(FS92K_A1_us)
SysAHyphen == Txt(FS92K_A1)
SysB == Txt(<<"S", "B">>)
SysD == Txt(<<"S", "D">>)
SysX == Txt(<<"S", "X">>)

SystemsSheet(rows) == Sheet(SheetText[Storage_Systems], Df({"name", "usable_capacity_gib"}, rows))
SystemRow(name, usable) == [name |-> name, usable_capacity_gib |-> NumCell(usable)]

PoolColumns == {"name", "storage_system", "usable_capacity_gib",
                "available_capacity_gib", "used_capacity_gib"}
PoolRow(name, system, usable, available, used) ==
    [name |-> Txt(name), storage_system |-> system, usable_capacity_gib |-> NumCell(usable),
     available_capacity_gib |-> NumCell(available), used_capacity_gib |-> used]

VolumeColumns(name_header) ==
    {name_header, "storage_system", "pool_name", "capacity_gib",
     "used_capacity_gib", "available_capacity_gib"}
VolumeRow(name_header, name, system, pool) ==
    [c \in VolumeColumns(name_header) |->
        IF c = name_header THEN Txt(name)
        ELSE IF c = "storage_system" THEN system
        ELSE IF c = "pool_name" THEN Txt(pool)
        ELSE IF c = "capacity_gib" THEN NumCell(10)
        ELSE IF c = "used_capacity_gib" THEN NumCell(4)
        ELSE NumCell(6)]

HostColumns == {"name", "condition", "san_capacity_gib", "used_san_capacity_gib"}
HostRow(name, condition, san, used) ==
    [name |-> Txt(name), condition |-> Txt(condition),
     san_capacity_gib |-> NumCell(san), used_san_capacity_gib |-> NumCell(used)]

DiskColumns == {"name", "storage_system", "pool", "capacity_gib", "available_capacity_gib"}
DiskRow(name, system, pool, capacity, available) ==
    [name |-> name, storage_system |-> system, pool |-> Txt(pool),
     capacity_gib |-> NumCell(capacity), available_capacity_gib |-> NumCell(available)]

DepartmentsSheet(rows) == Sheet(SheetText[Departments], Df({"name"}, rows))
DepartmentRow(name) == [name |-> Txt(name)]

\* a.xlsx: one system, a pool at 95 %, an orphan pool, volume and disk, one
\* host on two rows, a disk without a name, a department on two rows
FileA ==
    [name |-> "a.xlsx", readable |-> TRUE,
     sheets |-> <<
        SystemsSheet(<<SystemRow(SysA, 1000)>>),
        Sheet(SheetText[Storage_Pools],
              Df(PoolColumns, <<PoolRow(<<"P", "1">>, SysAHyphen, 1000, 50, NumCell(5)),
                                PoolRow(<<"P", "2">>, SysX, 100, 30, NullCell)>>)),
        Sheet(SheetText[Capacity_Volumes],
              Df(VolumeColumns("volume_name"),
                 <<VolumeRow("volume_name", <<"V", "1">>, SysA, <<"P", "1">>),
                   VolumeRow("volume_name", <<"V", "2">>, SysX, <<"P", "2">>)>>)),
        Sheet(SheetText[Capacity_Hosts],
              Df(HostColumns, <<HostRow(<<"H", "1">>, <<"o", "k">>, 100, 7),
                                HostRow(<<"H", "1">>, <<"b", "a", "d">>, 50, 0)>>)),
        Sheet(SheetText[Capacity_Disks],
              Df(DiskColumns, <<DiskRow(NullCell, SysA, <<"P", "1">>, 10, 3),
                                DiskRow(Txt(<<"D", "2">>), SysX, <<"P", "2">>, 5, 1)>>)),
        DepartmentsSheet(<<DepartmentRow(<<"I", "T">>), DepartmentRow(<<"I", "T">>)>>) >>]

\* b.xlsx: the system of a.xlsx and a second one, pool P1 now at 99 %, a
\* pool at 100 %, no volumes and no disks
FileB ==
    [name |-> "b.xlsx", readable |-> TRUE,
     sheets |-> <<
        SystemsSheet(<<SystemRow(SysAHyphen, 1000), SystemRow(SysB, 100)>>),
        Sheet(SheetText[Storage_Pools],
              Df(PoolColumns, <<PoolRow(<<"P", "1">>, SysA, 100, 1, NullCell),
                                PoolRow(<<"P", "3">>, SysB, 100, 0, NullCell)>>)),
        Sheet(SheetText[Capacity_Volumes], Df(VolumeColumns("volume_name"), <<>>)),
        Sheet(SheetText[Capacity_Hosts], Df(HostColumns, <<HostRow(<<"H", "2">>, <<"o", "k">>, 5, 1)>>)),
        Sheet(SheetText[Capacity_Disks], Df(DiskColumns, <<>>)),
        DepartmentsSheet(<<DepartmentRow(<<"I", "T">>)>>) >>]

\* c.xlsx: a.xlsx without its Departments sheet
FileC ==
    [name |-> "c.xlsx", readable |-> TRUE,
     sheets |-> SubSeq(FileA.sheets, 1, Len(FileA.sheets) - 1)]

\* u.xlsx: not a readable workbook
FileU == [name |-> "u.xlsx", readable |-> FALSE, sheets |-> <<>>]

\* d.xlsx: a volumes sheet with a named volume and a row whose volume_name
\* cell is blank
FileD ==
    [name |-> "d.xlsx", readable |-> TRUE,
     sheets |-> <<
        SystemsSheet(<<SystemRow(SysD, 100)>>),
        Sheet(SheetText[Storage_Pools],
              Df(PoolColumns, <<PoolRow(<<"P", "5">>, SysD, 100, 95, NullCell)>>)),
        Sheet(SheetText[Capacity_Volumes],
              Df(VolumeColumns("volume_name"),
                 <<VolumeRow("volume_name", <<"V", "1">>, SysD, <<"P", "5">>),
                   [VolumeRow("volume_name", <<"V", "2">>, SysD, <<"P", "5">>)
                       EXCEPT !["volume_name"] = NullCell]>>)),
        Sheet(SheetText[Capacity_Hosts], Df(HostColumns, <<>>)),
        Sheet(SheetText[Capacity_Disks], Df(DiskColumns, <<>>)),
        DepartmentsSheet(<<>>) >>]

\* e.xlsx: a pool of the system of a.xlsx and nothing else, the sheet names
\* in another case
FileE ==
    [name |-> "e.xlsx", readable |-> TRUE,
     sheets |-> <<
        Sheet(Lower(SheetText[Storage_Systems]), Df({"name", "usable_capacity_gib"}, <<>>)),
        Sheet(Lower(SheetText[Storage_Pools]),
              Df(PoolColumns, <<PoolRow(<<"P", "4">>, SysA, 100, 30, NullCell)>>)),
        Sheet(Lower(SheetText[Capacity_Volumes]), Df(VolumeColumns("volume_name"), <<>>)),
        Sheet(Lower(SheetText[Capacity_Hosts]), Df(HostColumns, <<>>)),
        Sheet(Lower(SheetText[Capacity_Disks]), Df(DiskColumns, <<>>)),
        Sheet(Lower(SheetText[Departments]), Df({"name"}, <<>>)) >>]

\* f.xlsx: a pool of the system of a.xlsx in a sheet with a report_date
\* column, the pool dated 2
FileF ==
    [name |-> "f.xlsx", readable |-> TRUE,
     sheets |-> <<
        SystemsSheet(<<>>),
        Sheet(SheetText[Storage_Pools],
              Df(PoolColumns \cup {"report_date"},
                 <<Put(PoolRow(<<"P", "6">>, SysA, 100, 30, NullCell),
                       "report_date", DateCell(2))>>)),
        Sheet(SheetText[Capacity_Volumes], Df(VolumeColumns("volume_name"), <<>>)),
        Sheet(SheetText[Capacity_Hosts], Df(HostColumns, <<>>)),
        Sheet(SheetText[Capacity_Disks], Df(DiskColumns, <<>>)),
        DepartmentsSheet(<<>>) >>]

Files == {FileA, FileB, FileC, FileU, FileD, FileE, FileF}

Dates == {1, 2}

\* the requests: a file and the report_date parameter, None when not given
Uploads ==
    {[file |-> f, report_date |-> DateCell(1)] : f \in Files}
    \cup {[file |-> FileB, report_date |-> DateCell(2)],
          [file |-> FileE, report_date |-> NullCell]}

MaxRuns == 2

----------------------------------------------------------------------------
(* The upload request: data.py upload_excel.  sess[s] holds the locals of    *)
(* the request session s handles, or handled last, and what its              *)
(* transaction has added and flushed.  The handlers are coroutines that      *)
(* never await after reading the file: a worker runs one to its end before   *)
(* it starts the next.                                                       *)

IdleSession ==
    [pc |-> "idle", n |-> 0, file |-> "", dataframes |-> <<>>, report_date |-> 0,
     log |-> 0, i |-> 0, pending |-> NoRows, flushed |-> NoRows, stats |-> <<>>,
     skipped |-> <<>>, candidates |-> {}, alerts |-> {}, before |-> EmptyDb,
     rerun |-> FALSE, error |-> ""]

Busy(s) == sess[s].pc \in {"sheet", "alerts", "commit", "finalize"}

\* an UploadLog row
UploadLog(id, file_name, status, rows_added, duplicates_skipped, errors, skipped, statistics) ==
    [id |-> id, file_name |-> file_name, status |-> status, rows_added |-> rows_added,
     duplicates_skipped |-> duplicates_skipped, errors |-> errors,
     skipped_records_json |-> skipped, upload_statistics_json |-> statistics]

\* an audit record left in the state the run started it in
FailedLog_processing(id, file_name, errors) ==
    UploadLog(id, file_name, "processing", 0, 0, errors, <<>>, <<>>)

\* data.py:99-106 and 416-423
FailedLog(id, file_name, errors) ==
    UploadLog(id, file_name, "failed", 0, 0, errors, <<>>, <<>>)

\* data.py:143-149
temp_upload_log(id, file_name) ==
    UploadLog(id, file_name, "processing", 0, 0, <<>>, <<>>, <<>>)

Init ==
    /\ fn_in = <<>> /\ fn_out = <<>>
    /\ db = EmptyDb
    /\ sess = [s \in {1} |-> IdleSession]
    /\ nextLogId = 1
    /\ hist = {}

NextId == nextLogId' = nextLogId + 1

\* data.py:97-114: the validator failed
RejectUpload(s, u) ==
    LET v == validate_excel_file(u.file)
    IN  /\ ~Busy(s) /\ sess[s].n < MaxRuns
        /\ ~v.is_valid
        /\ db' = [db EXCEPT !.logs = @ \cup {FailedLog(nextLogId, u.file.name, v.errors)}]
        /\ NextId
        /\ sess' = [sess EXCEPT ![s] =
                      [IdleSession EXCEPT !.pc = "rejected", !.n = sess[s].n + 1,
                                          !.file = u.file.name, !.log = nextLogId,
                                          !.before = db]]
        /\ UNCHANGED <<fn_in, fn_out, hist>>

\* data.py:70-152: a valid file; the run's audit record is added and flushed
BeginUpload(s, u, today) ==
    LET v == validate_excel_file(u.file)
        report_date == ResolveReportDate(u.report_date, v.dataframes, today)
    IN  /\ ~Busy(s) /\ sess[s].n < MaxRuns
        /\ v.is_valid
        /\ NextId
        /\ sess' = [sess EXCEPT ![s] =
                      [IdleSession EXCEPT !.pc = "sheet", !.n = sess[s].n + 1,
                                          !.file = u.file.name,
                                          !.dataframes = v.dataframes,
                                          !.report_date = report_date,
                                          !.log = nextLogId, !.i = 1, !.before = db,
                                          !.rerun = <<u.file.name, report_date>> \in hist]]
        /\ UNCHANGED <<fn_in, fn_out, db, hist>>

\* a faulty variant: the rollback also discards the rows of earlier runs
ExceptPath_discarding(s, error) ==
    /\ db' = [db EXCEPT !.rows = NoRows, !.logs = @ \cup
                 {FailedLog(nextLogId, sess[s].file, <<ValidationError(error, "")>>)}]
    /\ NextId
    /\ sess' = [sess EXCEPT ![s] =
                  [IdleSession EXCEPT !.pc = "failed", !.n = sess[s].n,
                                      !.file = sess[s].file,
                                      !.report_date = sess[s].report_date,
                                      !.log = sess[s].log, !.before = sess[s].before,
                                      !.rerun = sess[s].rerun, !.error = error]]
    /\ UNCHANGED <<fn_in, fn_out, hist>>

\* data.py:412-430: rollback, then a new audit record tagged failed
ExceptPath(s, error) ==
    /\ db' = [db EXCEPT !.logs = @ \cup
                 {FailedLog(nextLogId, sess[s].file, <<ValidationError(error, "")>>)}]
    /\ NextId
    /\ sess' = [sess EXCEPT ![s] =
                  [IdleSession EXCEPT !.pc = "failed", !.n = sess[s].n,
                                      !.file = sess[s].file,
                                      !.report_date = sess[s].report_date,
                                      !.log = sess[s].log, !.before = sess[s].before,
                                      !.rerun = sess[s].rerun, !.error = error]]
    /\ UNCHANGED <<fn_in, fn_out, hist>>

\* what the queries of session s see of a table: committed and flushed rows
Visible(s, t) == db.rows[t] \cup sess[s].flushed[t]

\* Session.flush() fails on a constraint
FlushRaises(s) ==
    \E t \in Tables : ViolatesConstraints(t, Visible(s, t), sess[s].pending[t])

\* the INSERT of a key that another open transaction has inserted waits for
\* that transaction to end
FlushWaits(s) ==
    \E o \in DOMAIN sess \ {s} : \E t \in Tables :
        \E r \in sess[s].pending[t] : \E q \in sess[o].flushed[t] :
            \A c \in unique_constraint[t] : SqlEq(q[c], r[c])

SeqToSet(q) == {q[i] : i \in 1..Len(q)}

\* data.py:199: the flush before the systems are looked up
FlushedRows(s, sheet_name) ==
    IF sheet_name \in fk_sheets
    THEN [t \in Tables |-> sess[s].flushed[t] \cup sess[s].pending[t]]
    ELSE sess[s].flushed

PendingRows(s, sheet_name) ==
    IF sheet_name \in fk_sheets THEN NoRows ELSE sess[s].pending

\* data.py:165-226: the records of the sheet with their foreign keys resolved
ResolvedRecords(s, sheet_name) ==
    IF sheet_name \in fk_sheets
    THEN ResolveForeignKeys(
             SheetRecords(sess[s].dataframes[sheet_name], sheet_name,
                          sess[s].report_date, sess[s].log),
             db.rows[Storage_Systems] \cup FlushedRows(s, sheet_name)[Storage_Systems],
             sess[s].report_date)
    ELSE SheetRecords(sess[s].dataframes[sheet_name], sheet_name,
                      sess[s].report_date, sess[s].log)

\* data.py:258-262
ReconcileSheet(s, sheet_name, resolved) ==
    insert_data_with_duplicate_check(
        db.rows[sheet_name] \cup FlushedRows(s, sheet_name)[sheet_name], sheet_name,
        IF sheet_name \in fk_sheets THEN valid_records(resolved) ELSE resolved,
        unique_keys_map[sheet_name])

\* a faulty variant: every row that was not added counts as filtered
SheetStats_lost_as_filtered(original_rows, resolved, filtered, ins) ==
    [original |-> original_rows, after_processing |-> Len(resolved),
     filtered |-> original_rows - ins.rows_added, filtered_records |-> filtered,
     added |-> ins.rows_added, duplicates |-> ins.duplicates_skipped,
     skipped |-> Len(ins.skipped_records)]

\* data.py:264-273
SheetStats(original_rows, resolved, filtered, ins) ==
    [original |-> original_rows, after_processing |-> Len(resolved),
     filtered |-> Len(filtered), filtered_records |-> filtered,
     added |-> ins.rows_added, duplicates |-> ins.duplicates_skipped,
     skipped |-> Len(ins.skipped_records)]

\* data.py:258-281: the sheet's rows are added to the session, its
\* statistics and skipped records kept
RecordSheet(s, sheet_name, resolved, filtered, ins) ==
    /\ sess' = [sess EXCEPT
          ![s].flushed = FlushedRows(s, sheet_name),
          ![s].pending = [PendingRows(s, sheet_name) EXCEPT
                             ![sheet_name] = @ \cup SeqToSet(ins.added)],
          ![s].stats = Put(@, sheet_name,
                           SheetStats(Len(sess[s].dataframes[sheet_name].rows),
                                      resolved, filtered, ins)),
          ![s].skipped = @ \o ins.skipped_records,
          ![s].i = @ + 1,
          ![s].pc = IF sess[s].i = Len(SheetOrder) THEN "alerts" ELSE "sheet"]
    /\ UNCHANGED <<fn_in, fn_out, db, nextLogId, hist>>

FilterAndReconcile(s, sheet_name, resolved) ==
    RecordSheet(s, sheet_name, resolved,
                IF sheet_name \in fk_sheets THEN filtered_records(resolved, sheet_name)
                ELSE <<>>,
                ReconcileSheet(s, sheet_name, resolved))

\* data.py:158-281: one round of the loop over the sheets
ProcessSheet(s) ==
    /\ sess[s].pc = "sheet"
    /\ TransformRaises(sess[s].dataframes[SheetOrder[sess[s].i]],
                       SheetOrder[sess[s].i], sess[s].report_date)
          \/ SheetOrder[sess[s].i] \notin fk_sheets
          \/ ~FlushWaits(s)
    /\ IF TransformRaises(sess[s].dataframes[SheetOrder[sess[s].i]],
                          SheetOrder[sess[s].i], sess[s].report_date)
       THEN ExceptPath(s, "KeyError")
       ELSE IF SheetOrder[sess[s].i] \in fk_sheets /\ FlushRaises(s)
       THEN ExceptPath(s, "IntegrityError")
       ELSE FilterAndReconcile(s, SheetOrder[sess[s].i],
                               ResolvedRecords(s, SheetOrder[sess[s].i]))

\* an Alert row: the candidate and the run that added it
AlertRow(a, run) ==
    [run |-> run, pool_name |-> a.pool_name, storage_system |-> a.storage_system,
     utilization_pct |-> a.utilization_pct, level |-> a.level,
     acknowledged |-> a.acknowledged]

\* a lookup that also requires the severity to agree
existing_alert_same_level(a) ==
    \E o \in db.alerts : /\ o.pool_name = a.pool_name
                         /\ o.storage_system = a.storage_system
                         /\ o.level = a.level
                         /\ ~o.acknowledged

\* data.py:295-299: an unacknowledged alert of the pool is persisted
existing_alert(a) ==
    \E o \in db.alerts : /\ o.pool_name = a.pool_name
                         /\ o.storage_system = a.storage_system
                         /\ ~o.acknowledged

\* data.py:291-302
GenerateAlerts(s) ==
    LET alerts == generate_alerts_from_pools(Visible(s, Storage_Pools), sess[s].report_date)
    IN  /\ sess[s].pc = "alerts"
        /\ sess' = [sess EXCEPT ![s].candidates = alerts,
                                ![s].alerts = {a \in alerts : ~existing_alert(a)},
                                ![s].pc = "commit"]
        /\ UNCHANGED <<fn_in, fn_out, db, nextLogId, hist>>

\* data.py:304: the first commit of the run writes its rows, its alerts and
\* its audit record, still tagged processing
CommitRun(s) ==
    /\ sess[s].pc = "commit"
    /\ ~FlushWaits(s)
    /\ IF FlushRaises(s)
       THEN ExceptPath(s, "IntegrityError")
       ELSE /\ db' = [rows |-> [t \in Tables |->
                                   db.rows[t] \cup sess[s].flushed[t] \cup sess[s].pending[t]],
                      alerts |-> db.alerts \cup {AlertRow(a, sess[s].log) : a \in sess[s].alerts},
                      logs |-> db.logs \cup {temp_upload_log(sess[s].log, sess[s].file)}]
            /\ sess' = [sess EXCEPT ![s].pc = "finalize", ![s].pending = NoRows,
                                    ![s].flushed = NoRows, ![s].alerts = {}]
            /\ hist' = hist \cup {<<sess[s].file, sess[s].report_date>>}
            /\ UNCHANGED <<fn_in, fn_out, nextLogId>>

\* data.py:338-352: per table the first 20 skipped records, as text
RECURSIVE skipped_details(_, _)
skipped_details(skips, seen) ==
    IF skips = <<>> THEN <<>>
    ELSE LET e == Head(skips)
             earlier == Len(SelectSeq(seen, LAMBDA o : o.table = e.table))
         IN  (IF earlier < 20
              THEN <<[table |-> e.table, identifier |-> e.identifier, reason |-> e.reason]>>
              ELSE <<>>)
             \o skipped_details(Tail(skips), Append(seen, e))

RECURSIVE SumOver(_, _, _)
SumOver(stats, sheets, field) ==
    IF sheets = <<>> THEN 0
    ELSE stats[Head(sheets)][field] + SumOver(stats, Tail(sheets), field)

\* data.py:312-314 and 358-381
upload_statistics(stats, total_rows_added, total_duplicates) ==
    LET total_original == SumOver(stats, SheetOrder, "original")
    IN  [total_original |-> total_original,
         total_filtered |-> SumOver(stats, SheetOrder, "filtered"),
         total_duplicates |-> total_duplicates,
         total_skipped |-> SumOver(stats, SheetOrder, "skipped"),
         total_added |-> total_rows_added,
         total_lost |-> total_original - total_rows_added,
         sheets |-> [t \in {x \in DOMAIN stats :
                               stats[x].original - stats[x].added > 0
                               \/ stats[x].original > 0} |->
                        [original |-> stats[t].original,
                         after_processing |-> stats[t].after_processing,
                         filtered |-> stats[t].filtered,
                         filtered_records |-> stats[t].filtered_records,
                         duplicates |-> stats[t].duplicates,
                         skipped |-> stats[t].skipped,
                         added |-> stats[t].added,
                         lost |-> stats[t].original - stats[t].added]]]

\* data.py:123: the list of the run's processing errors; nothing appends to it
processing_errors == <<>>

\* data.py:389
FinalStatus(errors) == IF errors = <<>> THEN "success" ELSE "partial"

\* data.py:385-401: the audit record gets its final values, second commit
FinalizeUpload(s) ==
    LET total_rows_added == SumOver(sess[s].stats, SheetOrder, "added")
        total_duplicates == SumOver(sess[s].stats, SheetOrder, "duplicates")
        final == UploadLog(sess[s].log, sess[s].file, FinalStatus(processing_errors),
                           total_rows_added,
                           total_duplicates, skipped_details(sess[s].skipped, <<>>),
                           sess[s].skipped,
                           upload_statistics(sess[s].stats, total_rows_added,
                                             total_duplicates))
    IN  /\ sess[s].pc = "finalize"
        /\ db' = [db EXCEPT !.logs =
                     (@ \ {temp_upload_log(sess[s].log, sess[s].file)}) \cup {final}]
        /\ sess' = [sess EXCEPT ![s].pc = "done"]
        /\ UNCHANGED <<fn_in, fn_out, nextLogId, hist>>

\* an unrecoverable error raised anywhere in the try block of data.py:154-410
UploadFails(s) ==
    /\ Busy(s)
    /\ ExceptPath(s, "Exception")

\* a faulty variant: the parent table is cleaned first
tables_to_clean_systems_first ==
    <<Storage_Systems, Departments, Capacity_Disks, Capacity_Hosts,
      Capacity_Volumes, Storage_Pools>>

\* data.py:455-464
tables_to_clean ==
    <<Departments, Capacity_Disks, Capacity_Hosts, Capacity_Volumes,
      Storage_Pools, Storage_Systems>>

\* a faulty variant: the rows of the run are removed whatever refers to them
DeleteTagged_unchecked(rows, order, upload_id) ==
    [rows |-> [t \in Tables |-> {r \in rows[t] : r["upload_id"] # NumCell(upload_id)}],
     raised |-> FALSE]

\* data.py:466-471: one DELETE per table, in order; the DELETE of a system
\* that a remaining row refers to violates that row's foreign key
RECURSIVE DeleteTagged(_, _, _)
DeleteTagged(rows, order, upload_id) ==
    IF order = <<>> THEN [rows |-> rows, raised |-> FALSE]
    ELSE LET model_class == Head(order)
             deleted == {r \in rows[model_class] : r["upload_id"] = NumCell(upload_id)}
             after == [rows EXCEPT ![model_class] = @ \ deleted]
             referred ==
                 /\ model_class = Storage_Systems
                 /\ \E t \in fk_sheets : \E r \in after[t] : \E sy \in deleted :
                       r["storage_system_id"] = SystemId(sy)
         IN  IF referred THEN [rows |-> rows, raised |-> TRUE]
             ELSE DeleteTagged(after, Tail(order), upload_id)

\* a faulty variant: the audit record is marked deleted although the
\* deletion was rolled back
DeleteUpload_marking_anyway(s, upload_id) ==
    LET upload_log == CHOOSE l \in db.logs : l.id = upload_id
        cleaned == DeleteTagged(db.rows, tables_to_clean, upload_id)
    IN  /\ \A o \in DOMAIN sess : ~Busy(o)
        /\ \E l \in db.logs : l.id = upload_id
        /\ db' = [db EXCEPT !.rows = cleaned.rows,
                             !.logs = (@ \ {upload_log})
                                      \cup {[upload_log EXCEPT !.status = "deleted"]}]
        /\ hist' = IF cleaned.rows = db.rows THEN hist ELSE {}
        /\ sess' = [sess EXCEPT ![s] = [IdleSession EXCEPT !.n = sess[s].n]]
        /\ UNCHANGED <<fn_in, fn_out, nextLogId>>

\* data.py:433-498
DeleteUpload(s, upload_id) ==
    LET upload_log == CHOOSE l \in db.logs : l.id = upload_id
        cleaned == DeleteTagged(db.rows, tables_to_clean, upload_id)
        kept == cleaned.rows
        raises == cleaned.raised
    IN  /\ \A o \in DOMAIN sess : ~Busy(o)
        /\ \E l \in db.logs : l.id = upload_id
        /\ IF raises
           THEN UNCHANGED <<db, hist>>
           ELSE /\ db' = [db EXCEPT !.rows = kept,
                                    !.logs = (@ \ {upload_log})
                                             \cup {[upload_log EXCEPT !.status = "deleted"]}]
                /\ hist' = IF kept = db.rows THEN hist ELSE {}
        /\ sess' = [sess EXCEPT ![s] = [IdleSession EXCEPT !.n = sess[s].n]]
        /\ UNCHANGED <<fn_in, fn_out, nextLogId>>

\* a faulty variant: the flag is flipped
acknowledge_alert_flipping(s, alert) ==
    /\ \A o \in DOMAIN sess : ~Busy(o)
    /\ alert \in db.alerts
    /\ db' = [db EXCEPT !.alerts = (@ \ {alert}) \cup {[alert EXCEPT !.acknowledged = ~alert.acknowledged]}]
    /\ sess' = [sess EXCEPT ![s] = [IdleSession EXCEPT !.n = sess[s].n]]
    /\ UNCHANGED <<fn_in, fn_out, nextLogId, hist>>

\* alerts.py:145-192
acknowledge_alert(s, alert) ==
    /\ \A o \in DOMAIN sess : ~Busy(o)
    /\ alert \in db.alerts
    /\ db' = [db EXCEPT !.alerts = (@ \ {alert}) \cup {[alert EXCEPT !.acknowledged = TRUE]}]
    /\ sess' = [sess EXCEPT ![s] = [IdleSession EXCEPT !.n = sess[s].n]]
    /\ UNCHANGED <<fn_in, fn_out, nextLogId, hist>>

Next ==
    \/ \E s \in DOMAIN sess : \E u \in Uploads : RejectUpload(s, u)
    \/ \E s \in DOMAIN sess : \E u \in Uploads : \E today \in Dates : BeginUpload(s, u, today)
    \/ \E s \in DOMAIN sess : ProcessSheet(s)
    \/ \E s \in DOMAIN sess : GenerateAlerts(s)
    \/ \E s \in DOMAIN sess : CommitRun(s)
    \/ \E s \in DOMAIN sess : FinalizeUpload(s)
    \/ \E s \in DOMAIN sess : UploadFails(s)
    \/ \E s \in DOMAIN sess : \E l \in db.logs : DeleteUpload(s, l.id)
    \/ \E s \in DOMAIN sess : \E a \in db.alerts : acknowledge_alert(s, a)

Spec == Init /\ [][Next]_vars

----------------------------------------------------------------------------
(* Properties of the ingestion run *)

\* the entity rows of a table that the run of session s has added, persisted or not
AddedBy(s, t) ==
    {r \in db.rows[t] \cup sess[s].pending[t] \cup sess[s].flushed[t] :
        r["upload_id"] = NumCell(sess[s].log)}

EntriesOf(skipped, model_class, kind) ==
    SelectSeq(skipped, LAMBDA e : e.table = tablename[model_class] /\ e.reason.kind = kind)

\* the rows a sheet's aggregation notes account for beyond the merged ones
Absorbed(notes) ==
    SumOver(notes, [i \in 1..Len(notes) |-> i], "original_count") - Len(notes)

FileNamed(name) == CHOOSE f \in Files : f.name = name

(* C1: a run of a file for a report date for which an earlier run of the     *)
(* same file has committed (no row deleted since) adds no entity row, and    *)
(* every record that reaches the Duplicate Reconciler is skipped with        *)
(* reason already_exists_in_db; the only other audit entries are the notes   *)
(* of the host aggregation.                                                  *)
C1_RerunAddsNothing ==
    \A s \in DOMAIN sess :
        sess[s].rerun =>
            /\ \A t \in Tables : AddedBy(s, t) = {}
            /\ db.rows = sess[s].before.rows
            /\ \A i \in 1..Len(sess[s].skipped) :
                  sess[s].skipped[i].reason.kind
                      \in {"already_exists_in_db", "aggregated_n_duplicates"}
            /\ \A t \in DOMAIN sess[s].stats :
                  /\ sess[s].stats[t].added = 0
                  /\ Len(EntriesOf(sess[s].skipped, t, "already_exists_in_db"))
                        = sess[s].stats[t].after_processing - sess[s].stats[t].filtered
                          - Absorbed(EntriesOf(sess[s].skipped, t, "aggregated_n_duplicates"))

\* C1: a.xlsx has been ingested a second time for the same date and its
\* audit record counts duplicates and no added row
C1_Witness ==
    \E s \in DOMAIN sess :
        /\ sess[s].rerun /\ sess[s].pc = "done" /\ sess[s].file = "a.xlsx"
        /\ \E l \in db.logs : /\ l.id = sess[s].log /\ l.status = "success"
                              /\ l.rows_added = 0 /\ l.duplicates_skipped > 0

(* C2: when a run has ended in the failed path, no entity row and no alert   *)
(* row of the run is persisted and every audit record the run has written    *)
(* has status failed.                                                        *)
C2_FailedRunLeavesNothing ==
    \A s \in DOMAIN sess :
        sess[s].pc = "failed" =>
            /\ db.rows = sess[s].before.rows
            /\ db.alerts = sess[s].before.alerts
            /\ \A l \in db.logs \ sess[s].before.logs : l.status = "failed"

(* C3: a file the validator rejects ends its run with exactly one new audit  *)
(* record, of status failed and carrying the validator's errors, the entity  *)
(* rows and the alert rows being those from before the run; a run of such a  *)
(* file gets no further than that.                                           *)
C3_RejectedUploadTouchesNothing ==
    \A s \in DOMAIN sess :
        /\ sess[s].pc = "rejected" =>
              /\ db.rows = sess[s].before.rows
              /\ db.alerts = sess[s].before.alerts
              /\ \E l \in db.logs \ sess[s].before.logs :
                    /\ db.logs = sess[s].before.logs \cup {l}
                    /\ l.status = "failed"
                    /\ l.errors # <<>>
                    /\ l.errors = validate_excel_file(FileNamed(sess[s].file)).errors
        /\ sess[s].pc # "idle" =>
              (sess[s].pc = "rejected"
                  <=> ~validate_excel_file(FileNamed(sess[s].file)).is_valid)

\* C3: the file without its Departments sheet was rejected after an earlier
\* run had persisted rows
C3_Witness ==
    \E s \in DOMAIN sess :
        /\ sess[s].pc = "rejected" /\ sess[s].file = "c.xlsx"
        /\ db.rows[Storage_Systems] # {}
        /\ \E l \in db.logs : l.id = sess[s].log /\ l.status = "failed"

\* the names of the systems a record of session s's run can be resolved to:
\* those of the batch and those persisted for the report date before the run
KnownSystems(s) ==
    LET batch == SheetRecords(sess[s].dataframes[Storage_Systems], Storage_Systems,
                              sess[s].report_date, sess[s].log)
    IN  {batch[i]["name"] : i \in 1..Len(batch)}
        \cup {r["name"] : r \in {x \in sess[s].before.rows[Storage_Systems] :
                                    x["report_date"] = DateCell(sess[s].report_date)}}

\* the transformed records of a sheet whose system is not known
Orphans(s, t) ==
    LET records == SheetRecords(sess[s].dataframes[t], t, sess[s].report_date, sess[s].log)
    IN  {records[i] : i \in {j \in 1..Len(records) :
                                Get(records[j], "storage_system_name") \notin KnownSystems(s)}}

AlertsOfPool(alerts, a) ==
    {o \in alerts : o.pool_name = a.pool_name /\ o.storage_system = a.storage_system}

(* C6: a candidate the run generates for a pool and system that had an       *)
(* unacknowledged alert persisted when the run began is not among the        *)
(* alerts the run adds, whatever the level of either: the alert rows of      *)
(* that pool and system are after the run those from before it.              *)
C6_NoSecondAlert ==
    \A s \in DOMAIN sess :
        \A a \in sess[s].candidates :
            (\E o \in AlertsOfPool(sess[s].before.alerts, a) : ~o.acknowledged) =>
                /\ a \notin sess[s].alerts
                /\ AlertsOfPool(db.alerts, a) = AlertsOfPool(sess[s].before.alerts, a)

\* C6: a run has ended whose candidate for a pool was of another level than
\* the unacknowledged alert persisted for it, which is still the pool's only alert
C6_Witness ==
    \E s \in DOMAIN sess :
        /\ sess[s].pc = "done"
        /\ \E a \in sess[s].candidates : \E o \in sess[s].before.alerts :
              /\ AlertsOfPool(db.alerts, a) = {o}
              /\ ~o.acknowledged
              /\ o.level # a.level
              /\ o.utilization_pct # a.utilization_pct

----------------------------------------------------------------------------
(* The disks sheet of one run through the Record Transformer, the Foreign    *)
(* Key Resolver and the Duplicate Reconciler, against persisted disks        *)

MaxDiskRows == 3

DiskD1 == Txt(<<"D", "1">>)
PoolP1 == Txt(<<"P", "1">>)

\* a row of the Capacity_Disks sheet as read from the file
RawDisk(name, pool, capacity) ==
    [name |-> name, storage_system |-> SysA, pool |-> pool,
     capacity_gib |-> NumCell(capacity), available_capacity_gib |-> NumCell(1)]

\* named, nameless and literally named "None"; with and without a pool
RawDisks ==
    {RawDisk(n, p, 10) : n \in {DiskD1, NullCell, StrCell(NoneText)}, p \in {PoolP1, NullCell}}
    \cup {RawDisk(n, PoolP1, 20) : n \in {DiskD1, NullCell, StrCell(NoneText)}}

\* the system of the disks, persisted for the report date
DiskSystem ==
    DbRow(Storage_Systems,
          [report_date |-> DateCell(1), name |-> SysAHyphen, upload_id |-> NumCell(0)])

\* a disk row an earlier run has persisted
PersistedDisk(name, pool) ==
    DbRow(Capacity_Disks,
          [report_date |-> DateCell(1), name |-> name, storage_system_name |-> SysAHyphen,
           storage_system_id |-> SystemId(DiskSystem), pool |-> pool,
           upload_id |-> NumCell(0), capacity_gib |-> Float(10, 0)])

PersistedDisks ==
    { {}, {PersistedDisk(DiskD1, PoolP1)}, {PersistedDisk(NullCell, PoolP1)},
      {PersistedDisk(DiskD1, NullCell)} }

DisksInit ==
    /\ fn_in \in [rows : UNION {[1..n -> RawDisks] : n \in 0..MaxDiskRows},
                  persisted : PersistedDisks]
    /\ fn_out = <<>>
    /\ NoRun

\* data.py:172-262 for the Capacity_Disks sheet of run 1, report date 1
DiskRecords(rows) ==
    valid_records(
        ResolveForeignKeys(
            SheetRecords(Df(DiskColumns, rows), Capacity_Disks, 1, 1), {DiskSystem}, 1))

ReconcileDisks ==
    /\ fn_out = <<>>
    /\ fn_out' = <<[records |-> DiskRecords(fn_in.rows),
                    result |-> insert_data_with_duplicate_check(
                                   fn_in.persisted, Capacity_Disks,
                                   DiskRecords(fn_in.rows),
                                   unique_keys_map[Capacity_Disks])]>>
    /\ NoRunStep

SpecDisks == DisksInit /\ [][ReconcileDisks]_vars

DiskKeys == unique_keys_map[Capacity_Disks]

\* the result of the reconciler on the first i records of the sheet
DiskPrefix(i) ==
    insert_data_with_duplicate_check(fn_in.persisted, Capacity_Disks,
                                     SubSeq(fn_out[1].records, 1, i), DiskKeys)

\* record i is added to the session
DiskAccepted(i) ==
    /\ DiskPrefix(i).rows_added = DiskPrefix(i - 1).rows_added + 1
    /\ DiskPrefix(i).duplicates_skipped = DiskPrefix(i - 1).duplicates_skipped
    /\ DiskPrefix(i).added
          = Append(DiskPrefix(i - 1).added, DbRow(Capacity_Disks, fn_out[1].records[i]))
    /\ DiskPrefix(i).skipped_records = DiskPrefix(i - 1).skipped_records

\* record i is skipped, counted as a duplicate and recorded with the reason and its row
DiskSkipped(i, kind) ==
    /\ DiskPrefix(i).rows_added = DiskPrefix(i - 1).rows_added
    /\ DiskPrefix(i).duplicates_skipped = DiskPrefix(i - 1).duplicates_skipped + 1
    /\ DiskPrefix(i).added = DiskPrefix(i - 1).added
    /\ \E e \in {DiskPrefix(i).skipped_records[Len(DiskPrefix(i).skipped_records)]} :
          /\ DiskPrefix(i).skipped_records = Append(DiskPrefix(i - 1).skipped_records, e)
          /\ e.table = "capacity_disks"
          /\ e.reason = Reason(kind, NullCell)
          /\ e.full_row = fn_out[1].records[i]

\* two records agree on the four key columns, a column the sheet lacks reading as NULL
SameKeyValues(a, b) == \A k \in DiskKeys : Get(a, k) = Get(b, k)

\* a persisted row has the record's values on the four key columns
KeyPersisted(r) == \E o \in fn_in.persisted : \A k \in DiskKeys : o[k] = Get(r, k)

\* C11 (as stated): among the disk candidates of one run that share a
\* unique-key tuple and whose key is not persisted, the first in row order
\* is accepted and every later one is skipped, counted as a duplicate and
\* recorded with reason within_file_duplicate and its full row.
C11_FirstOfEqualKeysWins ==
    fn_out # <<>> =>
        /\ DiskPrefix(Len(fn_out[1].records)) = fn_out[1].result
        /\ \A i \in 1..Len(fn_out[1].records) :
              ~KeyPersisted(fn_out[1].records[i]) =>
                  IF \A j \in 1..(i - 1) :
                         ~SameKeyValues(fn_out[1].records[j], fn_out[1].records[i])
                  THEN DiskAccepted(i)
                  ELSE DiskSkipped(i, "within_file_duplicate")

\* C13: a disk candidate without a name is not classified as a duplicate of
\* another nameless candidate of the run, or of a persisted nameless row,
\* that has its report_date, storage_system_name and pool: it is accepted.
C13_NullNamesNeverCollide ==
    fn_out # <<>> =>
        \A i \in 1..Len(fn_out[1].records) :
            /\ Get(fn_out[1].records[i], "name") = NullCell
            /\ \/ KeyPersisted(fn_out[1].records[i])
               \/ \E j \in 1..(i - 1) :
                     SameKeyValues(fn_out[1].records[j], fn_out[1].records[i])
            => DiskAccepted(i)

----------------------------------------------------------------------------
(* Further properties of the ingestion run *)

\* C12: a record whose write violates a constraint (NOT NULL, uniqueness) is
\* skipped on its own and the run commits the others: no run ends in the
\* failed path because of such a violation.
C12_PersistenceFailureAbsorbed ==
    \A s \in DOMAIN sess :
        sess[s].pc = "failed" => sess[s].error # "IntegrityError"

(* Two workers: each session serves one upload, their steps interleaved *)
InitConcurrent ==
    /\ fn_in = <<>> /\ fn_out = <<>>
    /\ db = EmptyDb
    /\ sess = [s \in {1, 2} |-> [IdleSession EXCEPT !.n = MaxRuns - 1]]
    /\ nextLogId = 1
    /\ hist = {}

SpecConcurrent == InitConcurrent /\ [][Next]_vars

\* C14: when two runs for the same report date interleave and both carry a
\* row with the same natural key, at most one row with that key is
\* persisted and the run that loses the race does not fail as a whole: a
\* file that is ingested well on its own is not failed by a uniqueness
\* violation.
C14_LoserDoesNotFail ==
    /\ \A t \in Tables : \A r, o \in db.rows[t] :
          (\A c \in unique_constraint[t] : SqlEq(o[c], r[c])) => o = r
    /\ \A s \in DOMAIN sess :
          sess[s].pc = "failed" /\ sess[s].file \in {"a.xlsx", "b.xlsx", "e.xlsx"}
              => sess[s].error # "IntegrityError"

\* C15: a run that passes validation ends in exactly one of success, partial
\* or failed: once it has ended, the run has left one audit record, and that
\* record's status is success, partial or failed.
C15_EndsSuccessPartialOrFailed ==
    \A s \in DOMAIN sess :
        sess[s].pc \in {"done", "failed"} =>
            LET left == db.logs \ sess[s].before.logs
            IN  /\ Cardinality(left) = 1
                /\ \A l \in left : l.status \in {"success", "partial", "failed"}

\* the rows of table t tagged with the run of audit record l
TaggedWith(l, t) == {r \in db.rows[t] : r["upload_id"] = NumCell(l.id)}

\* a row of another run refers to a system of the run of l
ReferredByOthers(l) ==
    \E t \in fk_sheets : \E r \in db.rows[t] \ TaggedWith(l, t) :
        \E sy \in TaggedWith(l, Storage_Systems) :
            r["storage_system_id"] = SystemId(sy)

\* what the deletion of the run of l leaves
DeletionEffect(l) ==
    IF ReferredByOthers(l)
    THEN db' = db
    ELSE /\ db'.rows = [t \in Tables |-> db.rows[t] \ TaggedWith(l, t)]
         /\ db'.logs = (db.logs \ {l}) \cup {[l EXCEPT !.status = "deleted"]}
         /\ db'.alerts = db.alerts

\* C16: deleting a run U removes every entity row tagged with U and no row
\* tagged with another run, U's own volumes, disks and pools being gone when
\* its systems are removed so that they never make the deletion fail, and
\* sets U's audit record to deleted; when a step fails (a row of another run
\* still refers to a system of U) no row is removed and the status is
\* unchanged.
C16_DeletionRemovesTheRun ==
    [][\A s \in DOMAIN sess : \A l \in db.logs :
           DeleteUpload(s, l.id) => DeletionEffect(l)]_vars

\* a run was deleted and its rows are gone (an alert of one of its pools is
\* left without that pool) while rows of another run are still there
C16_Witness ==
    \E l \in db.logs :
        /\ l.status = "deleted"
        /\ \A t \in Tables : TaggedWith(l, t) = {}
        /\ \E a \in db.alerts : \A p \in db.rows[Storage_Pools] :
              ~(p["name"] = a.pool_name /\ p["utilization_pct"] = a.utilization_pct)
        /\ db.rows[Storage_Systems] # {}

----------------------------------------------------------------------------
(* Volume sheets through the Record Transformer and the volumes' derived    *)
(* fields                                                                    *)

MaxVolumeRows == 2

A9K_A1_us == <<"A", "9", "K", "_", "A", "1">>

RawVolume(system, used, available) ==
    [volume_name |-> StrCell(<<"V", "1">>), storage_system |-> StrCell(system),
     pool_name |-> StrCell(<<"P", "1">>), capacity_gib |-> NumCell(10),
     used_capacity_gib |-> used, available_capacity_gib |-> available]

\* volumes of a FlashSystem and of another system, provisioned 10, the used
\* and available cells valued or blank
RawVolumes ==
    {RawVolume(system, used, available) :
        system \in {A9K_A1_us, <<"S", "B">>},
        used \in {NumCell(4), NullCell},
        available \in {NumCell(6), NumCell(1), NullCell}}

\* the sheet with its volume_name and pool_name columns headed name and pool
HeadedNamePool(df) ==
    LET Source(c) == IF c = "name" THEN "volume_name"
                     ELSE IF c = "pool" THEN "pool_name" ELSE c
        columns == (df.columns \ {"volume_name", "pool_name"}) \cup {"name", "pool"}
    IN  Df(columns, [i \in 1..Len(df.rows) |-> [c \in columns |-> df.rows[i][Source(c)]]])

VolumeSheets ==
    LET headed == {Df(VolumeColumns("volume_name"), rows) :
                      rows \in UNION {[1..n -> RawVolumes] : n \in 1..MaxVolumeRows}}
    IN  headed \cup {HeadedNamePool(df) : df \in headed}

VolumesInit ==
    /\ fn_in \in VolumeSheets
    /\ fn_out = <<>>
    /\ NoRun

\* data.py:172-186 for the volumes sheet
TransformVolumes ==
    /\ fn_out = <<>>
    /\ fn_out' = <<IF TransformRaises(fn_in, Capacity_Volumes, 1)
                   THEN [raised |-> TRUE, rows |-> <<>>]
                   ELSE [raised |-> FALSE,
                         rows |-> TransformSheet(fn_in, Capacity_Volumes, 1).rows]>>
    /\ NoRunStep

SpecVolumes == VolumesInit /\ [][TransformVolumes]_vars

AllValued(raw) ==
    \A c \in {"capacity_gib", "used_capacity_gib", "available_capacity_gib"} :
        raw[c].k = "num"

\* C17: for every volume row exactly one of two derivations applies, chosen
\* by whether the normalized system name is in the FlashSystem set: if it
\* is, available = provisioned - used whatever the source value was (and no
\* overhead is computed); if not, overhead = provisioned - used - available
\* and available keeps its source value.  Stated for the rows whose three
\* capacity cells all hold a number.
C17_OneDerivationPerVolume ==
    fn_out # <<>> =>
        /\ ~fn_out[1].raised
        /\ \A i \in 1..Len(fn_in.rows) :
              AllValued(fn_in.rows[i]) =>
                  LET raw == fn_in.rows[i]
                      rec == fn_out[1].rows[i]
                      P == RawGiB(raw["capacity_gib"])
                      U == RawGiB(raw["used_capacity_gib"])
                      A == RawGiB(raw["available_capacity_gib"])
                  IN  IF IsFlashSystem(rec)
                      THEN /\ IsGiB(Get(rec, "available_capacity_gib"), P - U)
                           /\ IsNa(Get(rec, "overhead_used_capacity"))
                      ELSE /\ IsGiB(Get(rec, "overhead_used_capacity"), P - U - A)
                           /\ IsGiB(Get(rec, "available_capacity_gib"), A)

\* C18: after the Record Transformer has run on a Capacity_Volumes row, the
\* record carries the source 'name' value as volume_name, the source 'pool'
\* value as pool_name and the source capacity value as
\* provisioned_capacity_gib.
C18_VolumeColumnsRenamed ==
    fn_out # <<>> /\ ~fn_out[1].raised /\ "name" \in fn_in.columns =>
        \A i \in 1..Len(fn_in.rows) :
            LET raw == fn_in.rows[i]
                rec == fn_out[1].rows[i]
            IN  /\ Get(rec, "volume_name")
                      \in {raw["name"], normalize_storage_system_name(raw["name"])}
                /\ Get(rec, "pool_name") = raw["pool"]
                /\ IsGiB(Get(rec, "provisioned_capacity_gib"), RawGiB(raw["capacity_gib"]))

----------------------------------------------------------------------------
(* Files through the Sheet Validator *)

SheetStates == {"named", "lower_case", "missing", "unreadable"}

\* the workbook in which required sheet REQUIRED_SHEETS[i] is in state how[i]
Workbook(how) ==
    LET present == SelectSeq([i \in 1..Len(REQUIRED_SHEETS) |-> i],
                             LAMBDA i : how[i] # "missing")
    IN  [name |-> "v.xlsx", readable |-> TRUE,
         sheets |-> [k \in 1..Len(present) |->
                       LET r == REQUIRED_SHEETS[present[k]]
                       IN  [sheet |-> IF how[present[k]] = "lower_case"
                                      THEN Lower(SheetText[r]) ELSE SheetText[r],
                            readable |-> how[present[k]] # "unreadable",
                            df |-> Df({"name"}, <<[name |-> StrCell(<<"N", Digits[present[k] + 1]>>)]>>)]]]

ValidateInit ==
    /\ fn_in \in {Workbook(how) : how \in [1..Len(REQUIRED_SHEETS) -> SheetStates]}
                 \cup {FileU}
    /\ fn_out = <<>>
    /\ NoRun

\* data.py:72: the validator on the uploaded file
ValidateFile ==
    /\ fn_out = <<>>
    /\ fn_out' = <<validate_excel_file(fn_in)>>
    /\ NoRunStep

SpecValidate == ValidateInit /\ [][ValidateFile]_vars

\* the sheets of the file whose name is that of required sheet r, whatever
\* the case of the letters
SheetsNamed(r) ==
    {i \in 1..Len(fn_in.sheets) : Lower(fn_in.sheets[i].sheet) = Lower(SheetText[r])}

\* C19: the Sheet Validator returns (ok, errors, tables) for every file; ok
\* is true exactly when errors is empty, exactly when all six required
\* sheets, matched whatever their case, are present and readable; there is
\* one error per missing or unreadable required sheet, and tables holds
\* every required sheet that could be read even when ok is false.  A file
\* that is no workbook gives one error and no table.
C19_ValidatorReportsEverySheet ==
    fn_out # <<>> =>
        LET v == fn_out[1]
            bad == {r \in Tables :
                       \/ SheetsNamed(r) = {}
                       \/ \E i \in SheetsNamed(r) : ~fn_in.sheets[i].readable}
            ErrorsOf(r) == {k \in 1..Len(v.errors) : v.errors[k].sheet = r}
        IN  /\ v.is_valid <=> v.errors = <<>>
            /\ IF fn_in.readable
               THEN /\ v.is_valid <=> bad = {}
                    /\ Len(v.errors) = Cardinality(bad)
                    /\ \A r \in bad : Cardinality(ErrorsOf(r)) = 1
                    /\ DOMAIN v.dataframes = Tables \ bad
                    /\ \A r \in Tables \ bad :
                          \E i \in SheetsNamed(r) : v.dataframes[r] = fn_in.sheets[i].df
               ELSE /\ ~v.is_valid
                    /\ Len(v.errors) = 1
                    /\ v.dataframes = <<>>

\* C19 witness: a file with a missing sheet, an unreadable sheet and a sheet
\* named in lower case is rejected with two errors and the tables of the
\* four sheets that could be read
C19_Witness ==
    /\ fn_out # <<>>
    /\ fn_in.readable
    /\ \E i \in 1..Len(fn_in.sheets) :
          /\ fn_in.sheets[i].sheet = Lower(SheetText[Storage_Pools])
          /\ fn_in.sheets[i].readable
    /\ ~fn_out[1].is_valid
    /\ Len(fn_out[1].errors) = 2
    /\ Cardinality(DOMAIN fn_out[1].dataframes) = 4
    /\ Storage_Pools \in DOMAIN fn_out[1].dataframes

\* C20: across ingestion runs, run deletions and acknowledgements an alert
\* row once persisted is never removed, its pool, system, utilization and
\* level never change, and its acknowledged flag only goes from false to
\* true, by an acknowledgement and by no other step.
C20_AlertsOnlyAcknowledged ==
    [][\A a \in db.alerts :
           \/ a \in db'.alerts
           \/ /\ ~a.acknowledged
              /\ [a EXCEPT !.acknowledged = TRUE] \in db'.alerts
              /\ \E s \in DOMAIN sess : acknowledge_alert(s, a)]_vars

\* C20 witness: an acknowledged alert is still there after the run whose
\* pool raised it was deleted, and a later alert of that pool was added
C20_Witness ==
    /\ \E l \in db.logs : l.status = "deleted" /\ l.rows_added > 0
    /\ \E a, b \in db.alerts :
          /\ a.acknowledged /\ ~b.acknowledged
          /\ a.pool_name = b.pool_name /\ a.storage_system = b.storage_system

----------------------------------------------------------------------------
(* Days until full: processing.py calculate_days_until_full.  A quotient of *)
(* two floats is kept as a fraction [n, d] of integers, d > 0.              *)

Frac(n, d) == [n |-> n, d |-> d]

\* the float v as a fraction
AsFrac(v) == IF v.e >= 0 THEN Frac(v.m * Pow10(v.e), 1) ELSE Frac(v.m, Pow10(-v.e))

\* int(a / b) of two positive fractions
TruncQuot(a, b) == (a.n * b.d) \div (a.d * b.n)

\* processing.py:74-80
BaselineGrowth(current_pct) ==
    IF FGt(current_pct, Float(95, 0)) THEN Frac(2, 1)
    ELSE IF FGt(current_pct, Float(80, 0)) THEN Frac(3, 2)
    ELSE Frac(1, 1)

\* processing.py:85: (growth_rate_gib / total_capacity_gib) * 100
ActualDailyPct(growth_rate_gib, total_capacity_gib) ==
    Frac(MantA(growth_rate_gib, total_capacity_gib) * 100,
         MantB(growth_rate_gib, total_capacity_gib))

\* a faulty variant: the actual growth is taken without its minimum
days_until_full_no_floor(current_pct, growth_rate_gib, total_capacity_gib) ==
    IF IsNa(current_pct) \/ FGe(current_pct, Hundred) THEN 0
    ELSE LET remaining_pct == AsFrac(FSub(Hundred, current_pct))
             actual_daily_pct == ActualDailyPct(growth_rate_gib, total_capacity_gib)
             daily_growth_pct ==
                 IF /\ growth_rate_gib.k = "float" /\ total_capacity_gib.k = "float"
                    /\ FGt(total_capacity_gib, Zero)
                    /\ actual_daily_pct.n > 0
                 THEN actual_daily_pct
                 ELSE BaselineGrowth(current_pct)
             days == TruncQuot(remaining_pct, daily_growth_pct)
         IN  IF days > 0 THEN days ELSE 0

\* processing.py:62-92; None and NaN figures fail the tests of lines 83-86
calculate_days_until_full(current_pct, growth_rate_gib, total_capacity_gib) ==
    IF IsNa(current_pct) \/ FGe(current_pct, Hundred) THEN 0
    ELSE LET remaining_pct == AsFrac(FSub(Hundred, current_pct))
             actual_daily_pct == ActualDailyPct(growth_rate_gib, total_capacity_gib)
             daily_growth_pct ==
                 IF /\ growth_rate_gib.k = "float" /\ total_capacity_gib.k = "float"
                    /\ FGt(total_capacity_gib, Zero)
                    /\ actual_daily_pct.n > 0
                 THEN IF 10 * actual_daily_pct.n >= actual_daily_pct.d
                      THEN actual_daily_pct ELSE Frac(1, 10)
                 ELSE BaselineGrowth(current_pct)
             days == TruncQuot(remaining_pct, daily_growth_pct)
         IN  IF days > 0 THEN days ELSE 0

\* utilizations below, at and above the thresholds, each a binary fraction
DaysUtilizations ==
    {NaN, Float(50, 0), Float(80, 0), Float(805, -1), Float(90, 0), Float(95, 0),
     Float(955, -1), Float(96, 0), Float(98, 0), Float(995, -1), Float(100, 0),
     Float(101, 0)}

\* recent growth in GiB: none, negative, zero, below and above the minimum
DaysGrowths ==
    {NullCell, NaN, Float(-5, 0), Zero, Float(5, -1), Float(1, 0), Float(5, 0),
     Float(20, 0), Float(2000, 0)}

DaysCapacities == {NullCell, Zero, Float(100, 0), Float(1000, 0)}

DaysInit ==
    /\ fn_in \in [current_pct : DaysUtilizations, growth_rate_gib : DaysGrowths,
                  total_capacity_gib : DaysCapacities]
    /\ fn_out = <<>>
    /\ NoRun

\* processing.py:694-698: the estimate of one pool
EstimateDays ==
    /\ fn_out = <<>>
    /\ fn_out' = <<calculate_days_until_full(fn_in.current_pct, fn_in.growth_rate_gib,
                                             fn_in.total_capacity_gib)>>
    /\ NoRunStep

SpecDays == DaysInit /\ [][EstimateDays]_vars

\* a growth figure and a positive total capacity are there
GrowthAvailable ==
    /\ fn_in.growth_rate_gib.k = "float" /\ fn_in.total_capacity_gib.k = "float"
    /\ fn_in.total_capacity_gib.m > 0

\* the actual daily growth in thousandths of a percent of the capacity
GrowthMilliPct ==
    (fn_in.growth_rate_gib.m * Pow10(fn_in.growth_rate_gib.e + 1) * 100000)
        \div (fn_in.total_capacity_gib.m * Pow10(fn_in.total_capacity_gib.e + 1))

\* the baseline of the tier in thousandths of a percent
BaselineMilliPct ==
    IF FGt(fn_in.current_pct, Float(95, 0)) THEN 2000
    ELSE IF FGt(fn_in.current_pct, Float(80, 0)) THEN 1500 ELSE 1000

\* 100 - u in thousandths of a percent
RemainingMilliPct == (10000 - fn_in.current_pct.m * Pow10(fn_in.current_pct.e + 2)) * 10

Floored(g) == IF g < 100 THEN 100 ELSE g

\* C21 (as stated): for u < 100 the days are the truncation of (100 - u) / g,
\* never negative, g being the baseline of the tier unless a growth figure is
\* available, then the actual daily growth floored at 0.1 (a figure of zero
\* gives 0.1); for u >= 100 the result is 0.
C21_FloorWheneverAvailable ==
    fn_out # <<>> /\ fn_in.current_pct.k = "float" =>
        IF FGe(fn_in.current_pct, Hundred) THEN fn_out[1] = 0
        ELSE /\ fn_out[1] >= 0
             /\ fn_out[1] = RemainingMilliPct \div
                    (IF GrowthAvailable THEN Floored(GrowthMilliPct)
                     ELSE BaselineMilliPct)

\* C21 (amended): g is the baseline of the tier unless a growth figure is
\* available and above zero, then the actual daily growth floored at 0.1; a
\* figure of zero or less leaves the baseline.
C21_FloorWhenGrowthPositive ==
    fn_out # <<>> /\ fn_in.current_pct.k = "float" =>
        IF FGe(fn_in.current_pct, Hundred) THEN fn_out[1] = 0
        ELSE /\ fn_out[1] >= 0
             /\ fn_out[1] = RemainingMilliPct \div
                    (IF GrowthAvailable /\ fn_in.growth_rate_gib.m > 0
                     THEN Floored(GrowthMilliPct)
                     ELSE BaselineMilliPct)

\* C21 witness: a pool at 95.5 % growing by 0.5 GiB a day of 1000 GiB, 0.05 %
\* floored at 0.1 %, is estimated at 45 days
C21_Witness ==
    /\ fn_in.current_pct = Float(955, -1)
    /\ fn_in.growth_rate_gib = Float(5, -1)
    /\ fn_in.total_capacity_gib = Float(1000, 0)
    /\ fn_out = <<45>>

----------------------------------------------------------------------------
(* Further properties of runs, deletions and alerts *)

\* C22: an ingestion run never changes or removes an entity row persisted
\* by an earlier run: every step that is not the deletion of a run keeps
\* every persisted row as it is, however the run ends.
C22_EarlierRowsKept ==
    [][\/ \E s \in DOMAIN sess : \E l \in db.logs : DeleteUpload(s, l.id)
       \/ \A t \in Tables : db.rows[t] \subseteq db'.rows[t]]_vars

\* C22 witness: a run that ended found a system of an earlier run, counted
\* it as a duplicate, and the rows persisted before it are all there
C22_Witness ==
    \E s \in DOMAIN sess :
        /\ sess[s].pc \in {"done", "failed"}
        /\ sess[s].before.rows[Storage_Systems] # {}
        /\ \A t \in Tables : sess[s].before.rows[t] \subseteq db.rows[t]
        /\ \E l \in db.logs :
              /\ l.id = sess[s].log
              /\ \E i \in 1..Len(l.skipped_records_json) :
                    /\ l.skipped_records_json[i].table = tablename[Storage_Systems]
                    /\ l.skipped_records_json[i].reason.kind = "already_exists_in_db"

\* C23: once an ingestion run has ended, by return or by error, no persisted
\* audit record of that run still has the status processing.
C23_NoRecordLeftProcessing ==
    \A s \in DOMAIN sess :
        sess[s].pc \in {"done", "failed"} =>
            ~\E l \in db.logs : l.id = sess[s].log /\ l.status = "processing"

----------------------------------------------------------------------------
(* A name and its hyphen spelling through the Name Normalizer *)

\* x with every underscore replaced by a hyphen
HyphenSpelling(name) ==
    IF name.k = "str" THEN StrCell(Replace(name.s, "_", "-")) ELSE name

\* processing.py:313-317: the normalizer on the name as two rows spell it
NormalizeSpellings ==
    /\ fn_out = <<>>
    /\ fn_out' = <<normalize_storage_system_name(fn_in),
                   normalize_storage_system_name(HyphenSpelling(fn_in))>>
    /\ NoRunStep

SpecSpellings == NameInit /\ [][NormalizeSpellings]_vars

\* the name is a key of the hardcoded corrections and has an underscore
IsUnderscoredAlias(name) ==
    /\ ~IsNa(name)
    /\ \E p \in specific_mappings : p[1] = Strip(Str(name))
    /\ \E i \in 1..Len(Strip(Str(name))) : Strip(Str(name))[i] = "_"

\* C24 (as stated): for every name x, normalize(x) equals normalize(x'),
\* x' being x with every underscore replaced by a hyphen.
C24_SpellingsNeverSplit ==
    fn_out # <<>> => fn_out[1] = fn_out[2]

\* C24 (amended): normalize(x) equals normalize(x') for every name x that is
\* not one of the hardcoded corrections' keys spelled with an underscore;
\* the hyphen spelling of such a key is not corrected.
C24_SpellingsAgreeOffTheTable ==
    fn_out # <<>> /\ ~IsUnderscoredAlias(fn_in) => fn_out[1] = fn_out[2]

\* C24 witness: FS92K_A1 and its hyphen spelling give one name
C24_Witness ==
    /\ fn_in = StrCell(FS92K_A1_us)
    /\ fn_out = <<StrCell(FS92K_A1), StrCell(FS92K_A1)>>

\* C25: alert candidates come only from the pools the current run has
\* ingested: a run that adds no pool row persists no new alert.
C25_NoPoolNoAlert ==
    \A s \in DOMAIN sess :
        /\ sess[s].pc \in {"finalize", "done"}
        /\ sess[s].stats[Storage_Pools].added = 0
        => ~\E a \in db.alerts : a.run = sess[s].log

\* C26: each persisted pool, volume and disk row has a storage_system_id
\* that identifies a persisted StorageSystem of the row's
\* storage_system_name and of the row's own report_date, also when that date
\* came from a date column of the sheet.
C26_ResolvedKeysConsistent ==
    \A t \in fk_sheets : \A r \in db.rows[t] :
        \E sy \in db.rows[Storage_Systems] :
            /\ SystemId(sy) = r["storage_system_id"]
            /\ sy["name"] = r["storage_system_name"]
            /\ sy["report_date"] = r["report_date"]

\* C27: after any sequence of runs and deletions of runs, every persisted
\* pool, volume and disk row refers to a StorageSystem row that is still
\* persisted; a run whose systems rows of another run refer to is not removed.
C27_NoDanglingSystem ==
    \A t \in fk_sheets : \A r \in db.rows[t] :
        \E sy \in db.rows[Storage_Systems] : SystemId(sy) = r["storage_system_id"]

\* no run is in progress, a row of a later run refers to a system of an
\* earlier run, and both are persisted: the earlier run can be asked to go
C27_Witness ==
    /\ \A s \in DOMAIN sess : ~Busy(s)
    /\ \E l \in db.logs :
          /\ l.status \in {"success", "partial"}
          /\ ReferredByOthers(l)
          /\ \E s \in DOMAIN sess : ENABLED DeleteUpload(s, l.id)

\* the rows of the hosts sheet that aggregation merged into another row, as
\* the skipped records of the run tell: each merged group but its one row
RECURSIVE AbsorbedRows(_)
AbsorbedRows(skipped) ==
    IF skipped = <<>> THEN 0
    ELSE (IF "original_count" \in DOMAIN Head(skipped)
          THEN Head(skipped).original_count - 1 ELSE 0)
         + AbsorbedRows(Tail(skipped))

\* the sheets the statistics of audit record l list, in the order of the run
ListedSheets(l) ==
    SelectSeq(SheetOrder, LAMBDA t : t \in DOMAIN l.upload_statistics_json.sheets)

\* the audit records of the runs that were committed and finalized
CommittedLogs == {l \in db.logs : l.status \in {"success", "partial"}}

\* C28: in the statistics of a committed run, every sheet but Capacity_Hosts
\* has original = filtered + duplicates + added, filtered = the number of
\* filtered_records and skipped = duplicates; Capacity_Hosts has original =
\* added + duplicates + the rows absorbed by aggregation; the run's totals of
\* added and duplicates are the sums over the sheets.
C28_AccountingConserved ==
    \A l \in CommittedLogs :
        LET st == l.upload_statistics_json
        IN  /\ \A t \in DOMAIN st.sheets \ {Capacity_Hosts} :
                  /\ st.sheets[t].original
                        = st.sheets[t].filtered + st.sheets[t].duplicates + st.sheets[t].added
                  /\ st.sheets[t].filtered = Len(st.sheets[t].filtered_records)
                  /\ st.sheets[t].skipped = st.sheets[t].duplicates
            /\ Capacity_Hosts \in DOMAIN st.sheets =>
                  st.sheets[Capacity_Hosts].original
                    = st.sheets[Capacity_Hosts].added + st.sheets[Capacity_Hosts].duplicates
                      + AbsorbedRows(l.skipped_records_json)
            /\ st.total_added = SumOver(st.sheets, ListedSheets(l), "added")
            /\ st.total_duplicates = SumOver(st.sheets, ListedSheets(l), "duplicates")
            /\ l.rows_added = st.total_added
            /\ l.duplicates_skipped = st.total_duplicates

\* a committed run whose statistics show a filtered row, a duplicate and an
\* added row on sheets other than the hosts', and a host row absorbed
C28_Witness ==
    \E l \in CommittedLogs :
        LET st == l.upload_statistics_json
        IN  /\ \E t \in DOMAIN st.sheets \ {Capacity_Hosts} :
                  st.sheets[t].filtered > 0 /\ st.sheets[t].added > 0
            /\ \E t \in DOMAIN st.sheets \ {Capacity_Hosts} : st.sheets[t].duplicates > 0
            /\ Capacity_Hosts \in DOMAIN st.sheets
            /\ AbsorbedRows(l.skipped_records_json) > 0
            /\ st.sheets[Capacity_Hosts].added > 0

\* the number of persisted entity rows tagged with the run of audit record l
RECURSIVE TaggedCount(_, _)
TaggedCount(l, sheets) ==
    IF sheets = <<>> THEN 0
    ELSE Cardinality(TaggedWith(l, Head(sheets))) + TaggedCount(l, Tail(sheets))

\* C29: the audit record agrees with the persisted data: as many entity
\* rows are tagged with a record of status success or partial as its
\* rows_added says, and none is tagged with a record of status failed or
\* deleted.
C29_AuditAgreesWithData ==
    \A l \in db.logs :
        /\ l.status \in {"success", "partial"} => TaggedCount(l, SheetOrder) = l.rows_added
        /\ l.status \in {"failed", "deleted"} => TaggedCount(l, SheetOrder) = 0

\* a finalized run with rows, a deleted run and a failed run side by side
C29_Witness ==
    /\ \E l \in db.logs : l.status = "success" /\ l.rows_added > 0
                           /\ TaggedCount(l, SheetOrder) = l.rows_added
    /\ \E l \in db.logs : l.status \in {"deleted", "failed"}

\* C30: at most one unacknowledged alert is persisted per (pool_name,
\* storage_system), also when two runs interleave.
C30_OneOpenAlertPerPool ==
    \A a \in db.alerts : \A b \in db.alerts :
        /\ ~a.acknowledged /\ ~b.acknowledged
        /\ a.pool_name = b.pool_name
        /\ a.storage_system = b.storage_system
        => a = b

====
